---- MODULE Spec2Model ----
(***************************************************************************)
(* A model of the GitHub Genie repository tools                            *)
(* (src/src/github_genie/agent/tools.py) and of the session that owns the  *)
(* working root (src/src/github_genie/agent/agent.py).                     *)
(*                                                                         *)
(* Text is modelled as sequences of one-character strings, so that         *)
(* strip(), rstrip(), startswith(), endswith(), len() and the regular      *)
(* expression search are computed and not assumed.                         *)
(***************************************************************************)
EXTENDS Integers, Sequences, FiniteSets, TLC

VARIABLES
    \* ---- search_in_files: the tree under search_dir, the call and its locals
    tree,                   \* directories and files below search_dir
    sargs,                  \* arguments of the search_in_files call in progress
    spc,                    \* "idle" | "walk" | "done"
    todo,                   \* what os.walk has still to yield: directories and files
    matches,                \* tools.py:466
    files_searched,         \* tools.py:467
    total_matches_found,    \* tools.py:468
    estimated_tokens,       \* tools.py:469
    files_with_matches,     \* tools.py:470
    truncated,              \* tools.py:471
    log,                    \* what the walk did: directories visited, files opened
    sresult,                \* the value search_in_files returned
    \* ---- read_file_content
    rfile,                  \* the file target_file names
    rargs,                  \* line_start and line_end of the call
    rresult,                \* the value read_file_content returned
    \* ---- list_directory_contents
    ldir,                   \* the directory target_dir names
    largs,                  \* filter_pattern of the call
    lresult,                \* the value list_directory_contents returned
    \* ---- ask_genie: one session
    pc,                     \* "running" | "returned" | "raised"
    current_repo_path,      \* GenieDependencies.current_repo_path
    disk,                   \* the scratch directories that exist
    procs,                  \* the git processes that are running
    clones,                 \* the clone_repository calls of the session, in order
    cleanup,                \* what the end of ask_genie did with the scratch directory
    \* ---- the tools as the agent run calls them
    progress_reporter,      \* GenieDependencies.progress_reporter
    stresult,               \* the value get_repository_structure returned
    first,                  \* what the call before returned, if it was the same call
    \* ---- two ask_genie runs at once
    sessions,               \* of each run: where it is and its GenieDependencies
    \* ---- PydanticAIAgentExecutor.execute
    task                    \* the request, where execute is, the events it put on
                            \* the queue, and how it ended

svars == <<tree, sargs, spc, todo, matches, files_searched, total_matches_found,
           estimated_tokens, files_with_matches, truncated, log, sresult>>

rvars == <<rfile, rargs, rresult>>
lvars == <<ldir, largs, lresult>>
tvars == <<progress_reporter, stresult, first, sessions, task>>
gvars == <<pc, current_repo_path, disk, procs, clones, cleanup, tvars>>

vars == <<svars, rvars, lvars, gvars>>

\* a variable that holds nothing yet
None == [kind |-> "none"]

\* An optional argument is <<>> when it is None and <<v>> when it is v. A list or
\* a string that the code only tests for truth is <<>> for None as for empty.

----------------------------------------------------------------------------
(* Bounds of the model *)

NFiles == 2             \* files below search_dir in the budget specification
TotalLines == 5         \* lines of all of them together
NDirs == 2              \* directories below search_dir in the walk specification
TokSmall == 7           \* a max_tokens that admits one or two matches
FilesSmall == 1         \* a max_files below the default
MaxReadLines == 3       \* lines of the file read_file_content reads
MaxClones == 3          \* clone_repository calls in one session
MaxScratch == 3         \* names mkdtemp can give a scratch directory
ToolClones == 2         \* clone_repository calls in a session that uses the other tools
MaxParts == 2           \* parts of the message of a request
MaxProgress == 2        \* progress reports of the tools during one ask_genie

(* Program constants *)

DefaultMaxFiles == 15           \* tools.py:407
DefaultMaxTokens == 100000      \* tools.py:408
PerFileCap == 3                 \* tools.py:553
CharsPerToken == 4              \* tools.py:475
MaxSearchSize == 1048576        \* tools.py:496
MaxReadSize == 10485760         \* tools.py:344
DefaultLineEnd == 200           \* tools.py:291

----------------------------------------------------------------------------
(* Text helpers *)

Max(a, b) == IF a >= b THEN a ELSE b
Min(a, b) == IF a <= b THEN a ELSE b

RECURSIVE SumSeq(_)
SumSeq(s) == IF s = <<>> THEN 0 ELSE Head(s) + SumSeq(Tail(s))

Indices(s) == [i \in 1..Len(s) |-> i]

IsSpace(c) == c \in {" ", "\n", "\t"}

\* str.strip(): leading and trailing whitespace removed
RECURSIVE LStrip(_)
LStrip(s) == IF s # <<>> /\ IsSpace(Head(s)) THEN LStrip(Tail(s)) ELSE s

RECURSIVE RStrip(_)
RStrip(s) ==
    IF s # <<>> /\ IsSpace(s[Len(s)]) THEN RStrip(SubSeq(s, 1, Len(s) - 1)) ELSE s

Strip(s) == LStrip(RStrip(s))

\* str.startswith('.')
StartsWithDot(name) == Len(name) > 0 /\ name[1] = "."

\* str.endswith(ext)
EndsWith(name, ext) ==
    /\ Len(ext) <= Len(name)
    /\ SubSeq(name, Len(name) - Len(ext) + 1, Len(name)) = ext

\* len(str(n)) for the line numbers of the model
Digits(n) == IF n < 10 THEN 1 ELSE IF n < 100 THEN 2 ELSE 3

(* Paths, as posixpath computes them *)

\* IsAbs that takes every path for an absolute one
IsAbs_Always(p) == TRUE

\* os.path.isabs
IsAbs(p) == Len(p) > 0 /\ p[1] = "/"

\* os.path.join(a, b)
Join(a, b) ==
    IF IsAbs(b) THEN b
    ELSE IF a = <<>> \/ a[Len(a)] = "/" THEN a \o b
    ELSE a \o <<"/">> \o b

RECURSIVE RStripSlashes(_)
RStripSlashes(s) ==
    IF s # <<>> /\ s[Len(s)] = "/" THEN RStripSlashes(SubSeq(s, 1, Len(s) - 1)) ELSE s

\* p.split('/'), cur and acc empty at the start
RECURSIVE SplitAcc(_, _, _)
SplitAcc(p, cur, acc) ==
    IF p = <<>> THEN Append(acc, cur)
    ELSE IF Head(p) = "/" THEN SplitAcc(Tail(p), <<>>, Append(acc, cur))
    ELSE SplitAcc(Tail(p), Append(cur, Head(p)), acc)

\* os.path.dirname: up to the last "/", without the slashes that end it
\* unless it holds nothing else
Dirname(p) ==
    LET slashes == { i \in 1..Len(p) : p[i] = "/" }
        i == IF slashes = {} THEN 0 ELSE CHOOSE k \in slashes : \A j \in slashes : j <= k
        head == SubSeq(p, 1, i)
    IN  IF RStripSlashes(head) = <<>> THEN head ELSE RStripSlashes(head)

(* re.compile / pattern.search for the patterns of the model: a literal, where *)
(* "." stands for any character and a final "*" repeats the character before  *)
(* it zero or more times; "(" opens a group that is never closed and a        *)
(* leading "*" repeats nothing: both are re.error.                            *)
Lower(c) == IF c = "A" THEN "a" ELSE IF c = "B" THEN "b" ELSE c
LowerSeq(s) == [i \in 1..Len(s) |-> Lower(s[i])]

\* ReCompileFails that compiles every pattern
ReCompileFails_Never(p) == FALSE

\* re.compile raises re.error
ReCompileFails(p) ==
    \/ \E i \in 1..Len(p) : p[i] = "("
    \/ (Len(p) > 0 /\ p[1] = "*")

\* the part of the pattern every match must contain
ReLiteral(p) ==
    IF Len(p) >= 2 /\ p[Len(p)] = "*" THEN SubSeq(p, 1, Len(p) - 2) ELSE p

ContainsAt(h, n, i) == \A j \in 1..Len(n) : n[j] = "." \/ n[j] = h[i + j]

ReSearch(p, s, ignorecase) ==
    LET h == IF ignorecase THEN LowerSeq(s) ELSE s
        n == IF ignorecase THEN LowerSeq(ReLiteral(p)) ELSE ReLiteral(p)
    IN  \E i \in 0..(Len(h) - Len(n)) : ContainsAt(h, n, i)

----------------------------------------------------------------------------
(* The file system below search_dir *)

NodeModules == <<"n","o","d","e","_","m","o","d","u","l","e","s">>
PyCache == <<"_","_","p","y","c","a","c","h","e","_","_">>
Venv == <<"v","e","n","v">>
Env == <<"e","n","v">>

\* PrunedDir without the denylist of names
PrunedDir_HiddenOnly(name) == StartsWithDot(name)

\* PrunedDir that keeps the denylist and descends into hidden directories
PrunedDir_DenylistOnly(name) == name \in {NodeModules, PyCache, Venv, Env}

\* tools.py:480: the directories os.walk is told not to descend into
PrunedDir(name) ==
    StartsWithDot(name) \/ name \in {NodeModules, PyCache, Venv, Env}

\* content.split('\n'): a text that ends with a newline, and the empty text,
\* yield a last empty element
SplitLines(f) ==
    IF f.lines = <<>> \/ f.nl THEN Append(f.lines, <<>>) ELSE f.lines

FilesIn(t, d) == SelectSeq(Indices(t.files), LAMBDA i : t.files[i].dir = d)

SubdirsOf(t, d) ==
    SelectSeq(Indices(t.dirs),
              LAMBDA c : t.dirs[c].parent = d /\ ~PrunedDir(t.dirs[c].name))

\* os.walk(search_dir), top-down: a directory, its files, then the
\* directories left in dirs, each with its own subtree
RECURSIVE Walk(_, _)
RECURSIVE WalkAll(_, _)
Walk(t, d) ==
    <<[kind |-> "dir", id |-> d]>>
    \o [i \in 1..Len(FilesIn(t, d)) |-> [kind |-> "file", id |-> FilesIn(t, d)[i]]]
    \o WalkAll(t, SubdirsOf(t, d))
WalkAll(t, ds) ==
    IF ds = <<>> THEN <<>> ELSE Walk(t, Head(ds)) \o WalkAll(t, Tail(ds))

\* os.path.relpath(file_path, search_dir)
RECURSIVE DirPath(_, _)
DirPath(t, d) ==
    IF d = 0 THEN <<>>
    ELSE DirPath(t, t.dirs[d].parent) \o t.dirs[d].name \o <<"/">>

RelPath(t, i) == DirPath(t, t.files[i].dir) \o t.files[i].name

----------------------------------------------------------------------------
(* search_in_files: one matching line *)

\* tools.py:473-475
estimate_tokens(len) == len \div CharsPerToken

Mark == <<">", ">", ">", " ">>

\* Context with two lines of context on each side, as before it was reduced
Context_TwoLines(lines, line_num) ==
    LET start == Max(0, line_num - 3)
        end == Min(Len(lines), line_num + 2)
    IN  [k \in 1..(end - start) |->
            [n |-> start + k,
             text |-> IF start + k = line_num THEN <<">", ">", ">", " ">> \o lines[start + k]
                                              ELSE lines[start + k]]]

\* tools.py:523-529: the lines around the match, the matching one marked.
\* n is the number of the line in the file, text what the result shows.
Context(lines, line_num) ==
    LET start == Max(0, line_num - 2)
        end == Min(Len(lines), line_num + 1)
        hit == (line_num - 1 - start) + 1
    IN  [k \in 1..(end - start) |->
            [n |-> start + k,
             text |-> IF k = hit THEN Mark \o lines[start + k] ELSE lines[start + k]]]

Marked(c) == Len(c.text) >= Len(Mark) /\ SubSeq(c.text, 1, Len(Mark)) = Mark

\* len('\n'.join(context_lines))
ContextLen(ctx) ==
    SumSeq([k \in 1..Len(ctx) |-> Len(ctx[k].text)]) + (Len(ctx) - 1)

\* tools.py:535: len(f"📄 {relative_path}:{line_num}\n{match_context}\n")
MatchTextLen(rel, line_num, ctx) ==
    2 + Len(rel) + 1 + Digits(line_num) + 1 + ContextLen(ctx) + 1

\* OverBudget that admits one file more than max_files
OverBudget_OneMoreFile(tokens, match_tokens, fwm, a) ==
    tokens + match_tokens > a.max_tokens \/ fwm > a.max_files

\* tools.py:539-540
OverBudget(tokens, match_tokens, fwm, a) ==
    tokens + match_tokens > a.max_tokens \/ fwm >= a.max_files

\* a line loop that no number of records ends
FileCapReached_Never(file_matches) == FALSE

\* tools.py:553
FileCapReached(file_matches) == Len(file_matches) >= PerFileCap

\* tools.py:519
LineMatches(a, line) == ReSearch(Strip(a.search_pattern), line, TRUE)

\* a matching line that is not counted
Counted_Not(st) == st

\* tools.py:520: total_matches_found += 1, before the budgets are looked at
Counted(st) == [st EXCEPT !.total = @ + 1]

(* tools.py:518-554: the loop over the lines of one file. st holds the       *)
(* locals the loop changes: total (total_matches_found), tokens              *)
(* (estimated_tokens), fm (file_matches), trunc (truncated).                 *)
RECURSIVE ScanLines(_, _, _, _, _, _)
ScanLines(lines, line_num, rel, st, fwm, a) ==
    IF line_num > Len(lines) THEN st
    ELSE IF ~LineMatches(a, lines[line_num])
    THEN ScanLines(lines, line_num + 1, rel, st, fwm, a)
    ELSE LET ctx == Context(lines, line_num)
             match_tokens == estimate_tokens(MatchTextLen(rel, line_num, ctx))
             found == Counted(st)
         IN  IF OverBudget(st.tokens, match_tokens, fwm, a)
             THEN [found EXCEPT !.trunc = TRUE]
             ELSE LET added == [found EXCEPT
                                  !.fm = Append(@, [file |-> rel,
                                                    line |-> line_num,
                                                    context |-> ctx,
                                                    tokens |-> match_tokens]),
                                  !.tokens = @ + match_tokens]
                  IN  IF FileCapReached(added.fm) THEN added
                      ELSE ScanLines(lines, line_num + 1, rel, added, fwm, a)

\* tools.py:483-499: the reasons a file of the walk is passed over unopened
PassesExtensions(a, name) ==
    \/ a.file_extensions = <<>>
    \/ \E k \in 1..Len(a.file_extensions) : EndsWith(name, a.file_extensions[k])

SkippedFile(a, f) ==
    \/ StartsWithDot(f.name)
    \/ ~PassesExtensions(a, f.name)
    \/ f.size > MaxSearchSize

\* tools.py:562
FileLimitReached(fwm, a) == fwm >= a.max_files

\* the records of a file are dropped when a budget stopped its scan
FileMatchesKept_DroppedAtLimit(file_matches, trunc) ==
    IF trunc THEN <<>> ELSE file_matches

\* tools.py:557-559: what matches.extend receives, whether or not the line
\* loop was left by the budget check
FileMatchesKept(file_matches, trunc) == file_matches

----------------------------------------------------------------------------
(* search_in_files: the call *)

SearchIdle ==
    /\ sargs = None /\ spc = "idle" /\ todo = <<>> /\ matches = <<>>
    /\ files_searched = 0 /\ total_matches_found = 0 /\ estimated_tokens = 0
    /\ files_with_matches = 0 /\ truncated = FALSE /\ log = <<>>
    /\ sresult = None

ReadIdle == rfile = None /\ rargs = None /\ rresult = None

ListIdle == ldir = None /\ largs = None /\ lresult = None

NoSession ==
    /\ pc = "none" /\ current_repo_path = <<>> /\ disk = {} /\ procs = {}
    /\ clones = <<>> /\ cleanup = "pending"
    /\ progress_reporter = "none" /\ stresult = None /\ first = None
    /\ sessions = None /\ task = None

\* tools.py:428-430 and 460-464: the call ends before the walk
SearchRejected(a) ==
    /\ spc = "idle"
    /\ Strip(a.search_pattern) = <<>> \/ ReCompileFails(Strip(a.search_pattern))
    /\ sargs' = a
    /\ spc' = "done"
    /\ sresult' = [kind |-> "error",
                   what |-> IF Strip(a.search_pattern) = <<>>
                            THEN "search_pattern must be a non-empty string"
                            ELSE "Invalid regex pattern"]
    /\ UNCHANGED <<tree, todo, matches, files_searched, total_matches_found,
                   estimated_tokens, files_with_matches, truncated, log>>
    /\ UNCHANGED <<rvars, lvars, gvars>>

\* tools.py:466-478
SearchStart(a) ==
    /\ spc = "idle"
    /\ Strip(a.search_pattern) # <<>>
    /\ ~ReCompileFails(Strip(a.search_pattern))
    /\ sargs' = a
    /\ spc' = "walk"
    /\ todo' = Walk(tree, 0)
    /\ UNCHANGED <<tree, matches, files_searched, total_matches_found,
                   estimated_tokens, files_with_matches, truncated, log, sresult>>
    /\ UNCHANGED <<rvars, lvars, gvars>>

\* a walk the truncated flag does not stop
Walking_IgnoresTruncated == spc = "walk" /\ todo # <<>>

\* tools.py:478, 482 and the breaks of 569-573: the walk goes on while
\* something is left and truncated is not set
Walking == spc = "walk" /\ ~truncated /\ todo # <<>>

\* tools.py:478-480
VisitDir ==
    /\ Walking
    /\ Head(todo).kind = "dir"
    /\ todo' = Tail(todo)
    /\ log' = Append(log, [ev |-> "dir", id |-> Head(todo).id])
    /\ UNCHANGED <<tree, sargs, spc, matches, files_searched, total_matches_found,
                   estimated_tokens, files_with_matches, truncated, sresult>>
    /\ UNCHANGED <<rvars, lvars, gvars>>

\* tools.py:483-499
SkipFile ==
    /\ Walking
    /\ Head(todo).kind = "file"
    /\ SkippedFile(sargs, tree.files[Head(todo).id])
    /\ todo' = Tail(todo)
    /\ log' = Append(log, [ev |-> "skip", id |-> Head(todo).id])
    /\ UNCHANGED <<tree, sargs, spc, matches, files_searched, total_matches_found,
                   estimated_tokens, files_with_matches, truncated, sresult>>
    /\ UNCHANGED <<rvars, lvars, gvars>>

\* tools.py:502-512 and 566-567: open() raises, the file is passed over
OpenFails ==
    /\ Walking
    /\ Head(todo).kind = "file"
    /\ ~SkippedFile(sargs, tree.files[Head(todo).id])
    /\ ~tree.files[Head(todo).id].readable
    /\ todo' = Tail(todo)
    /\ log' = Append(log, [ev |-> "open", id |-> Head(todo).id])
    /\ UNCHANGED <<tree, sargs, spc, matches, files_searched, total_matches_found,
                   estimated_tokens, files_with_matches, truncated, sresult>>
    /\ UNCHANGED <<rvars, lvars, gvars>>

\* tools.py:502-564
ScanFile ==
    /\ Walking
    /\ Head(todo).kind = "file"
    /\ ~SkippedFile(sargs, tree.files[Head(todo).id])
    /\ tree.files[Head(todo).id].readable
    /\ LET i == Head(todo).id
           st == ScanLines(SplitLines(tree.files[i]), 1, RelPath(tree, i),
                           [total |-> total_matches_found,
                            tokens |-> estimated_tokens,
                            fm |-> <<>>,
                            trunc |-> truncated],
                           files_with_matches, sargs)
           fwm == IF st.fm # <<>> THEN files_with_matches + 1
                                  ELSE files_with_matches
       IN  /\ files_searched' = files_searched + 1
           /\ total_matches_found' = st.total
           /\ estimated_tokens' = st.tokens
           /\ matches' = matches \o FileMatchesKept(st.fm, st.trunc)
           /\ files_with_matches' = fwm
           /\ truncated' = (st.trunc \/ (st.fm # <<>> /\ FileLimitReached(fwm, sargs)))
           /\ log' = Append(log, [ev |-> "open", id |-> i])
    /\ todo' = Tail(todo)
    /\ UNCHANGED <<tree, sargs, spc, sresult>>
    /\ UNCHANGED <<rvars, lvars, gvars>>

\* tools.py:575-598: the text returned, field by field
SearchResult ==
    IF matches = <<>>
    THEN [kind |-> "no_matches", files_searched |-> files_searched,
          records |-> <<>>, notice |-> FALSE, suggestion |-> FALSE]
    ELSE [kind |-> "found",
          total |-> total_matches_found,
          files_searched |-> files_searched,
          showing |-> IF truncated THEN <<Len(matches), files_with_matches>>
                                   ELSE <<>>,
          records |-> [k \in 1..Len(matches) |->
                          [file |-> matches[k].file, line |-> matches[k].line,
                           context |-> matches[k].context]],
          notice |-> truncated,
          suggestion |-> truncated]

SearchFinish ==
    /\ spc = "walk"
    /\ truncated \/ todo = <<>>
    /\ spc' = "done"
    /\ sresult' = SearchResult
    /\ UNCHANGED <<tree, sargs, todo, matches, files_searched, total_matches_found,
                   estimated_tokens, files_with_matches, truncated, log>>
    /\ UNCHANGED <<rvars, lvars, gvars>>

SearchNext(A) ==
    \/ \E a \in A : SearchRejected(a)
    \/ \E a \in A : SearchStart(a)
    \/ VisitDir
    \/ SkipFile
    \/ OpenFails
    \/ ScanFile
    \/ SearchFinish

----------------------------------------------------------------------------
(* The trees and the calls of the two search specifications *)

Hit == <<"A">>              \* a line the pattern "a" matches (ignoring case)
Miss == <<"b", " ">>        \* a line it does not match

LinesUpTo(n) == UNION { [1..k -> {Hit, Miss}] : k \in 0..n }

DigitChar(i) == CASE i = 1 -> "1" [] i = 2 -> "2" [] i = 3 -> "3" [] OTHER -> "4"

PlainFile(i, d, content, nl) ==
    [dir |-> d, name |-> <<"f", DigitChar(i), ".", "p">>, size |-> 64,
     readable |-> TRUE, lines |-> content, nl |-> nl]

\* one file of each sort the walk tells apart; all but "miss" hold a matching line
FileSorts == {"hit", "bare", "miss", "hidden", "ext", "big", "cap", "locked"}

SortedFile(i, d, sort) ==
    LET f == PlainFile(i, d, <<Hit>>, TRUE)
    IN  CASE sort = "hit" -> f
          [] sort = "bare" -> [f EXCEPT !.nl = FALSE]
          [] sort = "miss" -> [f EXCEPT !.lines = <<Miss>>]
          [] sort = "hidden" -> [f EXCEPT !.name = <<".">> \o @]
          [] sort = "ext" -> [f EXCEPT !.name = <<"f", DigitChar(i), ".", "t">>]
          [] sort = "big" -> [f EXCEPT !.size = MaxSearchSize + 1]
          [] sort = "cap" -> [f EXCEPT !.size = MaxSearchSize]
          [] OTHER -> [f EXCEPT !.readable = FALSE]

\* NFiles text files in search_dir itself, TotalLines lines among them
BudgetTrees ==
    { [dirs |-> <<>>,
       files |-> [i \in 1..NFiles |-> PlainFile(i, 0, c[i], TRUE)]]
      : c \in { x \in [1..NFiles -> LinesUpTo(TotalLines)] :
                  SumSeq([i \in 1..NFiles |-> Len(x[i])]) <= TotalLines } }

\* the names the d-th directory can have: plain, hidden, denylisted
DirNames(d) ==
    CASE d = 1 -> { <<"s">>, <<".", "g">>, Env }
      [] d = 2 -> { <<"t">>, <<".", "h">>, Venv }
      [] d = 3 -> { <<"u">>, <<".", "i">>, NodeModules }
      [] OTHER -> { <<"v">>, <<".", "j">>, PyCache }

\* nd directories, each below search_dir or below the directory before it,
\* holding a file of any sort anywhere and a plain file in search_dir
WalkTrees(nd) ==
    { [dirs |-> [d \in 1..nd |-> [parent |-> up[d], name |-> nm[d]]],
       files |-> <<SortedFile(1, at, sort), SortedFile(2, 0, other)>>]
      : up \in { u \in [1..nd -> 0..nd] : \A d \in 1..nd : u[d] \in {0, d - 1} },
        nm \in { x \in [1..nd -> UNION { DirNames(d) : d \in 1..nd }] :
                   \A d \in 1..nd : x[d] \in DirNames(d) },
        at \in 0..nd,
        sort \in FileSorts,
        other \in {"hit", "miss"} }

Patterns == { <<" ", "a">>, <<"a", "*">>, <<" ">>, <<"(">> }

\* calls with every budget and no extension filter
BudgetArgs ==
    [search_pattern : Patterns, file_extensions : {<<>>},
     max_files : {0, FilesSmall, DefaultMaxFiles},
     max_tokens : {0, TokSmall, DefaultMaxTokens}]

\* calls with the default budgets, with and without an extension filter
WalkArgs ==
    [search_pattern : Patterns, file_extensions : {<<>>, <<<<".", "p">>>>},
     max_files : {DefaultMaxFiles}, max_tokens : {DefaultMaxTokens}]

InitBudget ==
    /\ tree \in BudgetTrees \cup WalkTrees(0)
    /\ SearchIdle /\ ReadIdle /\ ListIdle /\ NoSession

SpecBudget == InitBudget /\ [][SearchNext(BudgetArgs)]_vars

InitWalk ==
    /\ tree \in WalkTrees(NDirs)
    /\ SearchIdle /\ ReadIdle /\ ListIdle /\ NoSession

SpecWalk == InitWalk /\ [][SearchNext(WalkArgs)]_vars

\* trees with directories, searched with every budget
InitStop ==
    /\ tree \in WalkTrees(NDirs)
    /\ SearchIdle /\ ReadIdle /\ ListIdle /\ NoSession

SpecStop == InitStop /\ [][SearchNext(BudgetArgs)]_vars

----------------------------------------------------------------------------
(* read_file_content *)

\* f.readlines(): every line with its terminator, which the last may lack
ReadLines(f) ==
    [i \in 1..Len(f.lines) |->
        IF i < Len(f.lines) \/ f.nl THEN f.lines[i] \o <<"\n">> ELSE f.lines[i]]

ReadError(what) == [kind |-> "error", what |-> what]

\* OutOfRange that lets a start one past the last line through
OutOfRange_OnePast(start_idx, total_lines) == start_idx > total_lines

\* tools.py:371
OutOfRange(start_idx, total_lines) == start_idx >= total_lines

\* tools.py:374-375
ClampEnd(end_idx, total_lines) ==
    IF end_idx >= total_lines THEN total_lines - 1 ELSE end_idx

\* lines[start_idx:end_idx + 1]
Slice(lines, start_idx, end_idx) ==
    SubSeq(lines, start_idx + 1, Min(end_idx + 1, Len(lines)))

\* Numbered that counts the returned lines from 1
Numbered_FromOne(selected, line_start) ==
    [k \in 1..Len(selected) |-> [n |-> k, text |-> RStrip(selected[k])]]

\* tools.py:383-385: f"{i:4d}: {line.rstrip()}" for i counted from line_start
Numbered(selected, line_start) ==
    [k \in 1..Len(selected) |->
        [n |-> line_start + (k - 1), text |-> RStrip(selected[k])]]

\* tools.py:309-395, for a target_file that has been resolved to f
ReadFileContent(f, line_start, line_end) ==
    IF line_start < 1
    THEN ReadError("line_start must be a positive integer")
    ELSE IF line_end # <<>> /\ line_end[1] < line_start
    THEN ReadError("line_end must be None or an integer >= line_start")
    ELSE IF ~f.exists THEN ReadError("File does not exist")
    ELSE IF ~f.isfile THEN ReadError("Path is not a file")
    ELSE IF f.size > MaxReadSize THEN ReadError("File too large to read")
    ELSE LET lines == ReadLines(f)
             total_lines == Len(lines)
             start_idx == line_start - 1
             end_idx == IF line_end # <<>> THEN line_end[1] - 1 ELSE total_lines - 1
         IN  IF OutOfRange(start_idx, total_lines)
             THEN [kind |-> "error", what |-> "line_start exceeds file length",
                   line_start |-> line_start, total_lines |-> total_lines]
             ELSE LET selected == Slice(lines, start_idx, ClampEnd(end_idx, total_lines))
                      actual_end == start_idx + Len(selected)
                  IN  [kind |-> "window",
                       line_start |-> line_start,
                       actual_end |-> actual_end,
                       total_lines |-> total_lines,
                       lines |-> Numbered(selected, line_start),
                       note |-> (line_end # <<>> /\ actual_end < total_lines)]

ReadCall(line_start, line_end) ==
    /\ rfile # None
    /\ rresult = None
    /\ rargs' = [line_start |-> line_start, line_end |-> line_end]
    /\ rresult' = ReadFileContent(rfile, line_start, line_end)
    /\ UNCHANGED <<rfile, svars, lvars, gvars>>

Plain == <<"a">>            \* a line of text
Padded == <<"b", " ">>      \* a line that ends in a blank

ReadTargets ==
    { [exists |-> TRUE, isfile |-> TRUE, size |-> sz, lines |-> c,
       nl |-> nl /\ c # <<>>]
      : sz \in {64, MaxReadSize},
        c \in UNION { [1..k -> {Plain, Padded}] : k \in 0..MaxReadLines },
        nl \in BOOLEAN }
    \cup { [exists |-> FALSE, isfile |-> FALSE, size |-> 0, lines |-> <<>>, nl |-> FALSE],
           [exists |-> TRUE, isfile |-> FALSE, size |-> 0, lines |-> <<>>, nl |-> FALSE],
           [exists |-> TRUE, isfile |-> TRUE, size |-> MaxReadSize + 1,
            lines |-> <<Plain>>, nl |-> TRUE] }

LineStarts == 0..(MaxReadLines + 1)
LineEnds == { <<>>, <<DefaultLineEnd>> } \cup { <<n>> : n \in (0 - 1)..(MaxReadLines + 1) }

ReadNext == \E ls \in LineStarts, le \in LineEnds : ReadCall(ls, le)

InitRead ==
    /\ rfile \in ReadTargets /\ rargs = None /\ rresult = None
    /\ tree = None /\ SearchIdle /\ ListIdle /\ NoSession

SpecRead == InitRead /\ [][ReadNext]_vars

\* the file of the tree a match record names, as read_file_content finds it
FileOfRecord(r) ==
    LET f == tree.files[CHOOSE i \in 1..Len(tree.files) : RelPath(tree, i) = r.file]
    IN  [exists |-> TRUE, isfile |-> TRUE, size |-> f.size, lines |-> f.lines,
         nl |-> f.nl /\ f.lines # <<>>]

\* tools.py:287-399 called on the file and the line of the k-th record of a
\* search result, line_end left at its default
FollowUpRead(k) ==
    /\ spc = "done" /\ sresult.kind = "found"
    /\ k \in 1..Len(sresult.records)
    /\ rresult = None
    /\ rfile' = FileOfRecord(sresult.records[k])
    /\ rargs' = [line_start |-> sresult.records[k].line, line_end |-> <<DefaultLineEnd>>]
    /\ rresult' = ReadFileContent(rfile', sresult.records[k].line, <<DefaultLineEnd>>)
    /\ UNCHANGED <<svars, lvars, gvars>>

FollowUpNext ==
    \/ SearchNext(BudgetArgs)
    \/ \E k \in 1..(NFiles * PerFileCap) : FollowUpRead(k)

\* a search and then a read of one of the lines it reported
SpecFollowUp == InitBudget /\ [][FollowUpNext]_vars

----------------------------------------------------------------------------
(* list_directory_contents *)

\* the names a directory of the model can hold, in the order sorted() gives them
ListNames == << <<".", "a">>, <<".", "b">>, <<"A">>, <<"a">>, <<"b">> >>

\* every name a directory of the model can hold, in the order sorted() gives
\* them (by code point: '.' before capitals before small letters)
SortedNames ==
    << <<".", "a">>, <<".", "b">>,
       <<".","g","i","t","i","g","n","o","r","e">>,
       <<"A">>,
       <<"L","I","C","E","N","S","E">>,
       <<"M","a","k","e","f","i","l","e">>,
       <<"R","E","A","D","M","E">>,
       <<"R","E","A","D","M","E",".","m","d">>,
       <<"a">>, <<"b">>,
       <<"g","o",".","m","o","d">> >>

\* sorted(os.listdir(target_dir))
SortedListing(d) == SelectSeq(SortedNames, LAMBDA n : n \in d.entries)

\* Suppressed that lets hidden entries through
Suppressed_Never(item, filter_pattern) == FALSE

\* tools.py:244
Suppressed(item, filter_pattern) ==
    StartsWithDot(item)
    /\ (filter_pattern = <<>> \/ ~ReSearch(Strip(filter_pattern), item, FALSE))

\* tools.py:247
FilteredOut(item, filter_pattern) ==
    filter_pattern # <<>> /\ ~ReSearch(Strip(filter_pattern), item, FALSE)

\* tools.py:219-280, for a target_dir that has been resolved to d
ListDirectoryContents(d, filter_pattern) ==
    IF ~d.exists THEN [kind |-> "error", what |-> "Directory does not exist"]
    ELSE IF ~d.isdir THEN [kind |-> "error", what |-> "Path is not a directory"]
    ELSE IF filter_pattern # <<>> /\ ReCompileFails(Strip(filter_pattern))
    THEN [kind |-> "error", what |-> "Invalid regex pattern in filter_pattern"]
    ELSE LET items == SelectSeq(SortedListing(d),
                                LAMBDA item : /\ ~Suppressed(item, filter_pattern)
                                              /\ ~FilteredOut(item, filter_pattern))
         IN  IF items = <<>>
             THEN [kind |-> "empty", items |-> <<>>, filtered |-> filter_pattern # <<>>]
             ELSE [kind |-> "contents", items |-> items, filtered |-> filter_pattern # <<>>]

ListCall(filter_pattern) ==
    /\ ldir # None
    /\ lresult = None
    /\ largs' = [filter_pattern |-> filter_pattern]
    /\ lresult' = ListDirectoryContents(ldir, filter_pattern)
    /\ UNCHANGED <<ldir, svars, rvars, gvars>>

ListTargets ==
    { [exists |-> TRUE, isdir |-> TRUE, entries |-> e]
      : e \in SUBSET { ListNames[k] : k \in 1..Len(ListNames) } }
    \cup { [exists |-> FALSE, isdir |-> FALSE, entries |-> {}],
           [exists |-> TRUE, isdir |-> FALSE, entries |-> {}] }

\* no filter, a letter, a letter between blanks, any character, a hidden
\* name, a blank, a pattern that does not compile
FilterPatterns ==
    { <<>>, <<"a">>, <<" ", "b", " ">>, <<".">>, <<".", "a">>, <<" ">>, <<"(">> }

ListNext == \E fp \in FilterPatterns : ListCall(fp)

InitList ==
    /\ ldir \in ListTargets /\ largs = None /\ lresult = None
    /\ tree = None /\ SearchIdle /\ ReadIdle /\ NoSession

SpecList == InitList /\ [][ListNext]_vars

----------------------------------------------------------------------------
(* ask_genie: the session that owns the working root *)

\* tools.py:39: tempfile.mkdtemp(prefix="github_genie_") of the c-th clone
TempDir(c) == <<"/", "t", DigitChar(c)>>

\* tools.py:42-44: the last part of the URL, here always the same
RepoName == <<"b">>

\* tools.py:46: os.path.join(temp_dir, repo_name)
RepoPath(c) == Join(TempDir(c), RepoName)

\* ScratchOf that goes up two levels
ScratchOf_Parent(path) == Dirname(Dirname(path))

\* agent.py:84: os.path.dirname(current_repo_path)
ScratchOf(path) == Dirname(path)

\* agent.py:82: os.path.exists(current_repo_path); the clone is there as long
\* as its scratch directory
PathExists(path) == ScratchOf(path) \in disk

\* InitialLocals that starts from what the call before left behind
InitialLocals_Kept ==
    [matches |-> matches, files_searched |-> files_searched,
     total_matches_found |-> total_matches_found,
     estimated_tokens |-> estimated_tokens,
     files_with_matches |-> files_with_matches, truncated |-> truncated]

\* tools.py:466-471
InitialLocals ==
    [matches |-> <<>>, files_searched |-> 0, total_matches_found |-> 0,
     estimated_tokens |-> 0, files_with_matches |-> 0, truncated |-> FALSE]

SetLocals(l) ==
    /\ matches' = l.matches
    /\ files_searched' = l.files_searched
    /\ total_matches_found' = l.total_matches_found
    /\ estimated_tokens' = l.estimated_tokens
    /\ files_with_matches' = l.files_with_matches
    /\ truncated' = l.truncated

ForgetSearch ==
    /\ tree' = None /\ sargs' = None /\ spc' = "idle" /\ todo' = <<>>
    /\ log' = <<>> /\ sresult' = None
    /\ matches' = <<>> /\ files_searched' = 0 /\ total_matches_found' = 0
    /\ estimated_tokens' = 0 /\ files_with_matches' = 0 /\ truncated' = FALSE

ForgetRead == rfile' = None /\ rargs' = None /\ rresult' = None

ForgetList == ldir' = None /\ largs' = None /\ lresult' = None

ForgetStructure == stresult' = None /\ first' = None

\* no search_in_files call is half way through its walk
NoToolRunning == spc # "walk"

\* the three sinks a session can have: none, one that works, one that raises
ProgressReporters == {"none", "ok", "raises"}

CloneStep(outcome) ==
    /\ pc = "running" /\ NoToolRunning
    /\ progress_reporter # "raises"
    /\ Len(clones) < MaxClones
    /\ clones' = Append(clones, outcome)
    /\ disk' = disk \cup {TempDir(Len(clones) + 1)}
    /\ cleanup' = cleanup
    /\ ForgetSearch /\ ForgetRead /\ ForgetList /\ ForgetStructure
    /\ UNCHANGED <<progress_reporter, sessions, task>>

\* tools.py:37-92: git exits with code 0
CloneSucceeds ==
    /\ CloneStep("cloned")
    /\ current_repo_path' = RepoPath(Len(clones) + 1)
    /\ UNCHANGED <<pc, procs>>

\* tools.py:85-87: git exits with another code
CloneFails ==
    /\ CloneStep("failed")
    /\ UNCHANGED <<pc, current_repo_path, procs>>

\* CloneTimesOut that records the path it was cloning to
CloneTimesOut_SetsRoot ==
    /\ CloneStep("timeout")
    /\ procs' = procs \cup {Len(clones) + 1}
    /\ current_repo_path' = RepoPath(Len(clones) + 1)
    /\ UNCHANGED pc

\* tools.py:81 and 94-96: wait_for gives up; nothing ends the git process
CloneTimesOut ==
    /\ CloneStep("timeout")
    /\ procs' = procs \cup {Len(clones) + 1}
    /\ UNCHANGED <<pc, current_repo_path>>

\* tools.py:73-78 and 97-99: git cannot be started
CloneErrors ==
    /\ CloneStep("error")
    /\ UNCHANGED <<pc, current_repo_path, procs>>

\* tools.py:34-35: report_progress raises before the try block is entered
CloneSinkFails ==
    /\ pc = "running" /\ NoToolRunning
    /\ progress_reporter = "raises"
    /\ Len(clones) < MaxClones
    /\ clones' = Append(clones, "raised")
    /\ pc' = "raised"
    /\ UNCHANGED <<current_repo_path, disk, procs, cleanup, svars, rvars, lvars, tvars>>

\* a git process left behind by a timeout ends by itself
GitExits ==
    /\ \E c \in procs : procs' = procs \ {c}
    /\ UNCHANGED <<pc, current_repo_path, disk, clones, cleanup, svars, rvars, lvars, tvars>>

\* agent.py:79-88: the run returns, no working root is set
ReturnsWithoutRoot ==
    /\ pc = "running" /\ NoToolRunning
    /\ current_repo_path = <<>>
    /\ pc' = "returned"
    /\ cleanup' = "nothing to remove"
    /\ UNCHANGED <<current_repo_path, disk, procs, clones, svars, rvars, lvars, tvars>>

\* agent.py:79-88: the run returns and rmtree removes the scratch directory
ReturnsAndRemoves ==
    /\ pc = "running" /\ NoToolRunning
    /\ current_repo_path # <<>> /\ PathExists(current_repo_path)
    /\ pc' = "returned"
    /\ disk' = disk \ {ScratchOf(current_repo_path)}
    /\ cleanup' = "removed"
    /\ UNCHANGED <<current_repo_path, procs, clones, svars, rvars, lvars, tvars>>

\* ReturnsRemovalFails that lets the exception of rmtree out of ask_genie
ReturnsRemovalFails_Surfaced ==
    /\ pc = "running" /\ NoToolRunning
    /\ current_repo_path # <<>> /\ PathExists(current_repo_path)
    /\ pc' = "raised"
    /\ cleanup' = "failed"
    /\ UNCHANGED <<current_repo_path, disk, procs, clones, svars, rvars, lvars, tvars>>

\* agent.py:83-86: rmtree raises and the exception is dropped
ReturnsRemovalFails ==
    /\ pc = "running" /\ NoToolRunning
    /\ current_repo_path # <<>> /\ PathExists(current_repo_path)
    /\ pc' = "returned"
    /\ cleanup' = "failed"
    /\ UNCHANGED <<current_repo_path, disk, procs, clones, svars, rvars, lvars, tvars>>

\* agent.py:79: github_genie.run raises; the lines after it do not run
RunRaises ==
    /\ pc = "running" /\ NoToolRunning
    /\ pc' = "raised"
    /\ UNCHANGED <<cleanup, current_repo_path, disk, procs, clones, svars, rvars, lvars, tvars>>

Next ==
    \/ CloneSucceeds
    \/ CloneFails
    \/ CloneTimesOut
    \/ CloneErrors
    \/ CloneSinkFails
    \/ GitExits
    \/ ReturnsWithoutRoot
    \/ ReturnsAndRemoves
    \/ ReturnsRemovalFails
    \/ RunRaises

\* agent.py:76-77: a session with fresh GenieDependencies
Init ==
    /\ pc = "running" /\ current_repo_path = <<>> /\ disk = {} /\ procs = {}
    /\ clones = <<>> /\ cleanup = "pending"
    /\ progress_reporter \in ProgressReporters
    /\ stresult = None /\ first = None /\ sessions = None /\ task = None
    /\ tree = None /\ SearchIdle /\ ReadIdle /\ ListIdle

Spec == Init /\ [][Next]_vars

----------------------------------------------------------------------------
(* A session whose clones are given any repository URL *)

DotGit == <<".", "g", "i", "t">>

\* tools.py:42-44: repo_url.rstrip('/').split('/')[-1], without a final ".git"
RepoNameOf(repo_url) ==
    LET parts == SplitAcc(RStripSlashes(repo_url), <<>>, <<>>)
        repo_name == parts[Len(parts)]
    IN  IF EndsWith(repo_name, DotGit)
        THEN SubSeq(repo_name, 1, Len(repo_name) - Len(DotGit))
        ELSE repo_name

\* tools.py:46
RepoPathOf(c, repo_url) == Join(TempDir(c), RepoNameOf(repo_url))

\* tempfile.gettempdir(), the directory mkdtemp makes the scratch directories in
ScratchParent == Dirname(TempDir(1))

\* URLs whose last part is a name, a name with ".git" and a slash, ".git",
\* ".", "..", "...git", and the empty URL
RepoUrls ==
    { <<"h", "/", "b">>,
      <<"h", "/", "b", ".", "g", "i", "t", "/">>,
      <<"h", "/", ".", "g", "i", "t">>,
      <<"h", "/", ".">>,
      <<"h", "/", ".", ".">>,
      <<"h", "/", ".", ".", ".", "g", "i", "t">>,
      <<>> }

\* git clone exits with 128 when the destination exists and is not empty:
\* "<scratch>/.." is the directory that holds the scratch directory
DestinationNotEmpty(repo_url) == RepoNameOf(repo_url) = <<".", ".">>

\* tools.py:37-92: git exits with code 0 for repo_url
CloneUrlSucceeds(repo_url) ==
    /\ ~DestinationNotEmpty(repo_url)
    /\ CloneStep("cloned")
    /\ current_repo_path' = RepoPathOf(Len(clones) + 1, repo_url)
    /\ UNCHANGED <<pc, procs>>

UrlNext ==
    \/ \E repo_url \in RepoUrls : CloneUrlSucceeds(repo_url)
    \/ CloneFails
    \/ CloneTimesOut
    \/ CloneErrors
    \/ CloneSinkFails
    \/ GitExits
    \/ ReturnsWithoutRoot
    \/ ReturnsAndRemoves
    \/ ReturnsRemovalFails
    \/ RunRaises

InitUrl ==
    /\ pc = "running" /\ current_repo_path = <<>> /\ disk = {ScratchParent}
    /\ procs = {} /\ clones = <<>> /\ cleanup = "pending"
    /\ progress_reporter \in ProgressReporters
    /\ stresult = None /\ first = None /\ sessions = None /\ task = None
    /\ tree = None /\ SearchIdle /\ ReadIdle /\ ListIdle

SpecUrl == InitUrl /\ [][UrlNext]_vars

----------------------------------------------------------------------------
(* The disk as the tools of a session see it: one directory outside every   *)
(* session, and under each scratch directory the clone that filled it       *)

\* the working root and the disk a tool call runs against
Now == [root |-> current_repo_path, disk |-> disk, clones |-> clones]

\* an argument that is not a string
NonString == <<"<int>">>

IsStr(p) == p # NonString

\* the names a path goes through: "" and "." name the directory itself
Components(p) ==
    SelectSeq(SplitAcc(p, <<>>, <<>>), LAMBDA c : c # <<>> /\ c # <<".">>)

DirEntry(path) ==
    [path |-> path, kind |-> "dir", size |-> 0, readable |-> TRUE,
     lines |-> <<>>, nl |-> FALSE]

FileEntry(path, lines) ==
    [path |-> path, kind |-> "file", size |-> 64, readable |-> TRUE,
     lines |-> lines, nl |-> TRUE]

\* /o and /o/b: a directory no session made
OutsideEntries ==
    << DirEntry(<< <<"o">> >>), FileEntry(<< <<"o">>, <<"b">> >>, <<Miss, Hit>>) >>

\* what a successful clone leaves in its scratch directory
RepoEntries(c) ==
    LET top == Components(RepoPath(c))
    IN  << DirEntry(top),
           FileEntry(Append(top, <<"a">>), <<Hit, Miss>>),
           FileEntry(Append(top, <<".", "a">>), <<Hit>>),
           DirEntry(Append(top, <<"b">>)),
           FileEntry(top \o << <<"b">>, <<"A">> >>, <<Hit>>) >>

RECURSIVE ScratchEntries(_, _)
ScratchEntries(w, c) ==
    IF c > Len(w.clones) THEN <<>>
    ELSE (IF TempDir(c) \in w.disk
          THEN <<DirEntry(Components(TempDir(c)))>>
               \o (IF w.clones[c] = "cloned" THEN RepoEntries(c) ELSE <<>>)
          ELSE <<>>)
         \o ScratchEntries(w, c + 1)

Entries(w) == OutsideEntries \o ScratchEntries(w, 1)

IsPrefix(d, path) == Len(d) <= Len(path) /\ SubSeq(path, 1, Len(d)) = d

\* os.path.exists, isdir, isfile, getsize, listdir and open on a path
Lookup(w, p) ==
    LET names == Components(p)
        es == Entries(w)
        hit == { k \in 1..Len(es) : es[k].path = names }
        e == IF names = <<>> THEN DirEntry(<<>>)
             ELSE es[CHOOSE k \in hit : TRUE]
        found == IsAbs(p) /\ (names = <<>> \/ hit # {})
    IN  IF ~found
        THEN [path |-> p, exists |-> FALSE, isdir |-> FALSE, isfile |-> FALSE,
              entries |-> {}, size |-> 0, lines |-> <<>>, nl |-> FALSE]
        ELSE [path |-> p, exists |-> TRUE,
              isdir |-> e.kind = "dir", isfile |-> e.kind = "file",
              entries |-> { es[k].path[Len(names) + 1] :
                              k \in { j \in 1..Len(es) :
                                        /\ Len(es[j].path) = Len(names) + 1
                                        /\ IsPrefix(names, es[j].path) } },
              size |-> e.size, lines |-> e.lines, nl |-> e.nl]

\* the directories and files below the directory p, as os.walk finds them
TreeAt(w, p) ==
    LET top == Components(p)
        below == SelectSeq(Entries(w),
                           LAMBDA e : Len(e.path) > Len(top) /\ IsPrefix(top, e.path))
        ds == SelectSeq(below, LAMBDA e : e.kind = "dir")
        fs == SelectSeq(below, LAMBDA e : e.kind = "file")
        Front(path) == SubSeq(path, 1, Len(path) - 1)
        DirIndex(path) ==
            IF path = top THEN 0 ELSE CHOOSE k \in 1..Len(ds) : ds[k].path = path
    IN  [path |-> p,
         dirs |-> [k \in 1..Len(ds) |->
                     [parent |-> DirIndex(Front(ds[k].path)),
                      name |-> ds[k].path[Len(ds[k].path)]]],
         files |-> [k \in 1..Len(fs) |->
                      [dir |-> DirIndex(Front(fs[k].path)),
                       name |-> fs[k].path[Len(fs[k].path)],
                       size |-> fs[k].size, readable |-> fs[k].readable,
                       lines |-> fs[k].lines, nl |-> fs[k].nl]]]

----------------------------------------------------------------------------
(* The tools as the agent run calls them: the path is resolved against the  *)
(* working root and the progress sink is told before the work is done       *)

Raised(what) == [kind |-> "raised", what |-> what]

\* tools.py:202 and 439
NoDirectoryError ==
    ReadError("No directory specified and no repository available")

\* tools.py:211, 326 and 448
RelativePathError ==
    ReadError("Relative path provided but no repository available")

\* ResolveDirectory that takes the path as it was given
Trimmed_Untouched(p) == p

\* directory_path.strip() and file_path.strip()
Trimmed(p) == Strip(p)

\* tools.py:198-212 and 435-449: target_dir or search_dir; strip() of a value
\* that is not a string raises AttributeError
ResolveDirectory(directory_path, root) ==
    IF ~IsStr(directory_path) THEN [kind |-> "attribute_error"]
    ELSE IF Trimmed(directory_path) \in {<<>>, <<".">>}
    THEN IF root = <<>> THEN NoDirectoryError ELSE [kind |-> "path", path |-> root]
    ELSE IF IsAbs(Trimmed(directory_path))
    THEN [kind |-> "path", path |-> Trimmed(directory_path)]
    ELSE IF root = <<>> THEN RelativePathError
    ELSE [kind |-> "path", path |-> Join(root, Trimmed(directory_path))]

\* tools.py:196-284; the handler at 282-283 formats target_dir, which is not
\* bound if the exception came before line 199
ListDirectoryTool(w, reporter, directory_path, filter_pattern) ==
    LET r == ResolveDirectory(directory_path, w.root)
    IN  IF r.kind = "attribute_error"
        THEN [target |-> None, result |-> Raised("UnboundLocalError")]
        ELSE IF r.kind = "error" THEN [target |-> None, result |-> r]
        ELSE IF reporter = "raises"
        THEN [target |-> Lookup(w, r.path),
              result |-> ReadError("Error listing directory contents")]
        ELSE [target |-> Lookup(w, r.path),
              result |-> ListDirectoryContents(Lookup(w, r.path), filter_pattern)]

\* tools.py:303-399
ReadFileTool(w, reporter, file_path, line_start, line_end) ==
    IF ~IsStr(file_path) \/ Strip(file_path) = <<>>
    THEN [target |-> None,
          result |-> ReadError("file_path must be a non-empty string")]
    ELSE IF line_start < 1 \/ (line_end # <<>> /\ line_end[1] < line_start)
    THEN [target |-> None, result |-> ReadFileContent(None, line_start, line_end)]
    ELSE IF ~IsAbs(Trimmed(file_path)) /\ w.root = <<>>
    THEN [target |-> None, result |-> RelativePathError]
    ELSE LET target_file == IF IsAbs(Trimmed(file_path)) THEN Trimmed(file_path)
                            ELSE Join(w.root, Trimmed(file_path))
         IN  IF reporter = "raises"
             THEN [target |-> Lookup(w, target_file),
                   result |-> ReadError("Error reading file")]
             ELSE [target |-> Lookup(w, target_file),
                   result |-> ReadFileContent(Lookup(w, target_file),
                                              line_start, line_end)]

\* tools.py:422-464: what search_in_files does before the walk; report_progress
\* is awaited before the try block
SearchEntry(w, reporter, a) ==
    IF reporter = "raises"
    THEN [target |-> None, result |-> Raised("report_progress")]
    ELSE IF Strip(a.search_pattern) = <<>>
    THEN [target |-> None,
          result |-> ReadError("search_pattern must be a non-empty string")]
    ELSE LET r == ResolveDirectory(a.directory_path, w.root)
         IN  IF r.kind = "attribute_error"
             THEN [target |-> None, result |-> Raised("UnboundLocalError")]
             ELSE IF r.kind = "error" THEN [target |-> None, result |-> r]
             ELSE [target |-> TreeAt(w, r.path),
                   result |->
                      IF ~Lookup(w, r.path).exists
                      THEN ReadError("Directory does not exist")
                      ELSE IF ~Lookup(w, r.path).isdir
                      THEN ReadError("Path is not a directory")
                      ELSE IF ReCompileFails(Strip(a.search_pattern))
                      THEN ReadError("Invalid regex pattern")
                      ELSE None]

\* str.startswith(prefix)
StartsWith(name, prefix) ==
    Len(prefix) <= Len(name) /\ SubSeq(name, 1, Len(prefix)) = prefix

\* tools.py:159-166
CommonFiles ==
    << <<"R","E","A","D","M","E",".","m","d">>,
       <<"R","E","A","D","M","E",".","r","s","t">>,
       <<"R","E","A","D","M","E",".","t","x","t">>,
       <<"R","E","A","D","M","E">>,
       <<"p","a","c","k","a","g","e",".","j","s","o","n">>,
       <<"r","e","q","u","i","r","e","m","e","n","t","s",".","t","x","t">>,
       <<"s","e","t","u","p",".","p","y">>,
       <<"p","y","p","r","o","j","e","c","t",".","t","o","m","l">>,
       <<"C","a","r","g","o",".","t","o","m","l">>,
       <<"g","o",".","m","o","d">>,
       <<"p","o","m",".","x","m","l">>,
       <<"b","u","i","l","d",".","g","r","a","d","l","e">>,
       <<"M","a","k","e","f","i","l","e">>,
       <<"C","M","a","k","e","L","i","s","t","s",".","t","x","t">>,
       <<"D","o","c","k","e","r","f","i","l","e">>,
       <<"L","I","C","E","N","S","E">>,
       <<"L","I","C","E","N","S","E",".","t","x","t">>,
       <<"L","I","C","E","N","S","E",".","m","d">>,
       <<".","g","i","t","i","g","n","o","r","e">>,
       <<".","e","n","v",".","e","x","a","m","p","l","e">> >>

\* key files in the order sorted(os.listdir(repo_path)) has them
KeyFiles_ListingOrder(d) ==
    SelectSeq(SortedListing(d),
              LAMBDA item : item \in { CommonFiles[k] : k \in 1..Len(CommonFiles) })

\* tools.py:168-170: os.path.exists(os.path.join(repo_path, file)) for each
\* name of common_files, in the order of that list
KeyFiles(d) == SelectSeq(CommonFiles, LAMBDA file : file \in d.entries)

\* tools.py:111-179 for a repo_path that leads to d; report_progress is
\* awaited before the try block, and os.listdir of a path that is not a
\* directory raises inside it. key_files_line is the "Key files found:" line
\* of the report: <<>> when the report has none, else the names it joins.
StructureReport(reporter, d, repo_path) ==
    IF reporter = "raises" THEN Raised("report_progress")
    ELSE IF ~d.exists THEN ReadError("Repository path does not exist")
    ELSE IF ~d.isdir THEN ReadError("Error analyzing repository structure")
    ELSE [kind |-> "structure",
          path |-> repo_path,
          items |-> SelectSeq(SortedListing(d),
                              LAMBDA item : ~StartsWith(item, <<".","g","i","t">>)),
          key_files_line |-> IF KeyFiles(d) # <<>> THEN <<KeyFiles(d)>> ELSE <<>>]

GetRepositoryStructure(w, reporter, repo_path) ==
    StructureReport(reporter, Lookup(w, repo_path), repo_path)

----------------------------------------------------------------------------
(* The tool calls of a session. The model keeps what the last call returned *)
(* and, when the call before it was the same call with nothing in between,  *)
(* what that one returned.                                                  *)

\* a tool that raises ends the agent run with its exception
AfterTool(result) ==
    /\ pc' = IF result # None /\ result.kind = "raised" THEN "raised" ELSE pc
    /\ UNCHANGED <<current_repo_path, disk, procs, clones, cleanup, progress_reporter,
                   sessions, task>>

ToolReady == pc = "running" /\ NoToolRunning

\* tools.py:182-284
ListTool(directory_path, filter_pattern) ==
    /\ ToolReady
    /\ LET out == ListDirectoryTool(Now, progress_reporter, directory_path, filter_pattern)
           args == [directory_path |-> directory_path, filter_pattern |-> filter_pattern]
       IN  /\ largs' = args
           /\ ldir' = out.target
           /\ lresult' = out.result
           /\ first' = IF lresult # None /\ largs = args
                       THEN lresult ELSE None
           /\ AfterTool(out.result)
    /\ ForgetSearch /\ ForgetRead /\ stresult' = None

\* tools.py:287-399
ReadTool(file_path, line_start, line_end) ==
    /\ ToolReady
    /\ LET out == ReadFileTool(Now, progress_reporter, file_path, line_start, line_end)
       IN  /\ rargs' = [file_path |-> file_path, line_start |-> line_start,
                        line_end |-> line_end]
           /\ rfile' = out.target
           /\ rresult' = out.result
           /\ AfterTool(out.result)
    /\ first' = None
    /\ ForgetSearch /\ ForgetList /\ stresult' = None

\* tools.py:402-478: the call up to the walk; a call that fails before the
\* walk returns here
SearchTool(a) ==
    /\ ToolReady
    /\ LET out == SearchEntry(Now, progress_reporter, a)
       IN  /\ sargs' = a
           /\ tree' = out.target
           /\ sresult' = out.result
           /\ spc' = IF out.result = None THEN "walk" ELSE "done"
           /\ todo' = IF out.result = None THEN Walk(out.target, 0) ELSE <<>>
           /\ AfterTool(out.result)
    /\ SetLocals(InitialLocals)
    /\ log' = <<>>
    /\ first' = IF sresult # None /\ sargs = a
                THEN sresult ELSE None
    /\ ForgetRead /\ ForgetList /\ stresult' = None

\* tools.py:102-179
StructureTool(repo_path) ==
    /\ ToolReady
    /\ stresult' = GetRepositoryStructure(Now, progress_reporter, repo_path)
    /\ AfterTool(stresult')
    /\ first' = None
    /\ ForgetSearch /\ ForgetRead /\ ForgetList

\* the paths, filters, ranges and patterns the tools are called with
DirPaths == { <<>>, <<".">>, <<"b", " ">>, <<"/", "o">>, NonString }

FilePaths == { <<>>, <<".">>, <<" ", "a">>, <<"/", "o", "/", "b">>, NonString }

ToolFilters == { <<>>, <<".", "a">> }

ToolRanges == { <<1, <<>>>>, <<2, <<2>>>>, <<0, <<>>>> }

ToolPatterns == { <<"a">>, <<" ">> }

SearchCalls ==
    [search_pattern : ToolPatterns, directory_path : DirPaths,
     file_extensions : {<<>>},
     max_files : {DefaultMaxFiles}, max_tokens : {DefaultMaxTokens}]

RepoPaths == { RepoPath(1), <<"/", "o", "/", "b">>, <<"/", "z">> }

\* a session that calls its tools clones at most ToolClones times
FewClones == Len(clones) < ToolClones

ToolsNext ==
    \/ FewClones /\ CloneSucceeds
    \/ FewClones /\ CloneFails
    \/ FewClones /\ CloneTimesOut
    \/ FewClones /\ CloneErrors
    \/ FewClones /\ CloneSinkFails
    \/ \E dp \in DirPaths, fp \in ToolFilters : ListTool(dp, fp)
    \/ \E fp \in FilePaths, r \in ToolRanges : ReadTool(fp, r[1], r[2])
    \/ \E a \in SearchCalls : SearchTool(a)
    \/ VisitDir
    \/ SkipFile
    \/ ScanFile
    \/ SearchFinish
    \/ \E rp \in RepoPaths : StructureTool(rp)

SpecTools == Init /\ [][ToolsNext]_vars

----------------------------------------------------------------------------
(* get_repository_structure on a root with any choice of top-level names *)

StructureNames ==
    { <<".","g","i","t","i","g","n","o","r","e">>,
      <<"L","I","C","E","N","S","E">>,
      <<"M","a","k","e","f","i","l","e">>,
      <<"R","E","A","D","M","E">>,
      <<"R","E","A","D","M","E",".","m","d">>,
      <<"a">>,
      <<"g","o",".","m","o","d">> }

StructureTargets ==
    { [exists |-> TRUE, isdir |-> TRUE, entries |-> e] : e \in SUBSET StructureNames }
    \cup { [exists |-> FALSE, isdir |-> FALSE, entries |-> {}],
           [exists |-> TRUE, isdir |-> FALSE, entries |-> {}] }

\* tools.py:102-179; ldir is what repo_path leads to
StructureCall ==
    /\ stresult = None
    /\ stresult' = StructureReport(progress_reporter, ldir, RepoPath(1))
    /\ UNCHANGED <<ldir, largs, lresult, svars, rvars>>
    /\ UNCHANGED <<pc, current_repo_path, disk, procs, clones, cleanup,
                   progress_reporter, first, sessions, task>>

InitStructure ==
    /\ ldir \in StructureTargets /\ largs = None /\ lresult = None
    /\ tree = None /\ SearchIdle /\ ReadIdle /\ NoSession

SpecStructure == InitStructure /\ [][StructureCall]_vars

----------------------------------------------------------------------------
(* Two ask_genie runs at once, each with the GenieDependencies made for it  *)
(* (agent.py:76-77, executor.py:73-74), on one disk                         *)

Sessions == {1, 2}

\* Mkdtemp that can give out the name of a directory that exists
Mkdtemp_Reuses == { TempDir(n) : n \in 1..MaxScratch }

\* tools.py:39: tempfile.mkdtemp creates a directory that did not exist
Mkdtemp == { TempDir(n) : n \in 1..MaxScratch } \ disk

OtherVars ==
    <<svars, rvars, lvars, pc, current_repo_path, procs, clones, cleanup,
      progress_reporter, stresult, first, task>>

\* tools.py:37-92 in run s: git exits with code 0
CloneSucceedsIn(s) ==
    /\ sessions[s].pc = "running"
    /\ \E temp_dir \in Mkdtemp :
          /\ disk' = disk \cup {temp_dir}
          /\ sessions' = [sessions EXCEPT
                             ![s].current_repo_path = Join(temp_dir, RepoName)]
    /\ UNCHANGED OtherVars

\* tools.py:37-99 in run s: git exits with another code, or not in time
CloneFailsIn(s) ==
    /\ sessions[s].pc = "running"
    /\ \E temp_dir \in Mkdtemp : disk' = disk \cup {temp_dir}
    /\ UNCHANGED <<sessions, OtherVars>>

\* agent.py:79-88 in run s: the run returns; rmtree removes the scratch
\* directory of the working root, or fails
ReturnsIn(s) ==
    /\ sessions[s].pc = "running"
    /\ sessions' = [sessions EXCEPT ![s].pc = "returned"]
    /\ LET path == sessions[s].current_repo_path
       IN  IF path # <<>> /\ PathExists(path)
           THEN disk' = disk \ {ScratchOf(path)} \/ disk' = disk
           ELSE disk' = disk
    /\ UNCHANGED OtherVars

\* agent.py:79 in run s: github_genie.run raises
RaisesIn(s) ==
    /\ sessions[s].pc = "running"
    /\ sessions' = [sessions EXCEPT ![s].pc = "raised"]
    /\ UNCHANGED <<disk, OtherVars>>

PairNext ==
    \E s \in Sessions :
        \/ CloneSucceedsIn(s)
        \/ CloneFailsIn(s)
        \/ ReturnsIn(s)
        \/ RaisesIn(s)

InitPair ==
    /\ sessions = [s \in Sessions |-> [pc |-> "running", current_repo_path |-> <<>>]]
    /\ disk = {}
    /\ pc = "none" /\ current_repo_path = <<>> /\ procs = {} /\ clones = <<>>
    /\ cleanup = "pending" /\ progress_reporter = "none"
    /\ stresult = None /\ first = None /\ task = None
    /\ tree = None /\ SearchIdle /\ ReadIdle /\ ListIdle

SpecPair == InitPair /\ [][PairNext]_vars

----------------------------------------------------------------------------
(* What a search should have found, stated on the tree and not on the walk *)

\* a directory that is, or lies below, a hidden or denylisted directory
RECURSIVE BelowPruned(_, _)
BelowPruned(t, d) ==
    /\ d # 0
    /\ \/ t.dirs[d].name[1] = "."
       \/ t.dirs[d].name \in {NodeModules, PyCache, Venv, Env}
       \/ BelowPruned(t, t.dirs[d].parent)

\* the files a search with arguments a has to read
Candidate(t, a, i) ==
    LET f == t.files[i]
    IN  /\ ~BelowPruned(t, f.dir)
        /\ f.name[1] # "."
        /\ \/ a.file_extensions = <<>>
           \/ \E k \in 1..Len(a.file_extensions) : EndsWith(f.name, a.file_extensions[k])
        /\ f.size <= 1024 * 1024
        /\ f.readable

Candidates(t, a) == { i \in 1..Len(t.files) : Candidate(t, a, i) }

MatchingLines(t, a, i) ==
    { n \in 1..Len(SplitLines(t.files[i])) : LineMatches(a, SplitLines(t.files[i])[n]) }

SearchDone == spc = "done" /\ sresult.kind \in {"no_matches", "found"}

Returned(rel, n) ==
    \E k \in 1..Len(sresult.records) :
        sresult.records[k].file = rel /\ sresult.records[k].line = n

RecordsOf(rel) == { k \in 1..Len(sresult.records) : sresult.records[k].file = rel }

\* some matching line of a candidate file is missing from the result
LeftOut(i) ==
    \E n \in MatchingLines(tree, sargs, i) : ~Returned(RelPath(tree, i), n)

ReturnedFiles == { sresult.records[k].file : k \in 1..Len(sresult.records) }

ReturnedTokens == SumSeq([k \in 1..Len(matches) |-> matches[k].tokens])

LargestRecord ==
    IF matches = <<>> THEN 0
    ELSE CHOOSE m \in { matches[k].tokens : k \in 1..Len(matches) } :
            \A k \in 1..Len(matches) : matches[k].tokens <= m

(* C1: the records a search returns come from at most max_files distinct     *)
(* files; their estimated sizes add up to at most max_tokens plus the size   *)
(* of one record; and when a matching line of a candidate file is missing    *)
(* for a reason other than the per-file cap (its file shows fewer than       *)
(* PerFileCap records), the truncated flag is set.                           *)
C1_SearchWithinBudgets ==
    SearchDone =>
        /\ Len(sresult.records) = Len(matches)
        /\ Cardinality(ReturnedFiles) <= sargs.max_files
        /\ ReturnedTokens <= sargs.max_tokens + LargestRecord
        /\ \A i \in Candidates(tree, sargs) :
              (LeftOut(i) /\ Cardinality(RecordsOf(RelPath(tree, i))) < PerFileCap)
                  => truncated

\* a search that filled its max_files and had to leave a matching line out
C1_Witness ==
    /\ SearchDone
    /\ sargs.max_files = FilesSmall
    /\ Cardinality(ReturnedFiles) = sargs.max_files
    /\ truncated
    /\ \E i \in Candidates(tree, sargs) :
          LeftOut(i) /\ RecordsOf(RelPath(tree, i)) = {}

(* C2: when a search ends with the truncated flag set, its text carries the *)
(* truncation notice and the advice to use a more specific pattern, also    *)
(* when the budget was hit before any match was accepted.                   *)
C2_TruncationIsAnnounced ==
    (SearchDone /\ truncated) => (sresult.notice /\ sresult.suggestion)

(* C3: if a matching line of a candidate file is missing from the result    *)
(* because of max_files, max_tokens or the per-file cap, the text carries   *)
(* the truncation notice. Stated for the results that list matches, where   *)
(* the notice can only be missing because of the per-file cap.              *)
C3_NoSilentTruncation ==
    (SearchDone /\ sresult.kind = "found"
       /\ \E i \in Candidates(tree, sargs) : LeftOut(i))
        => sresult.notice

(* C7: when no line of a candidate file matches, the search answers "No     *)
(* matches found ... in N files searched" with N the number of candidate    *)
(* files: outside pruned directories, not hidden, passing the extension     *)
(* filter, at most 1 MiB and readable. Files passed over are not counted.   *)
C7_NoMatchCountsCandidates ==
    (SearchDone /\ \A i \in Candidates(tree, sargs) : MatchingLines(tree, sargs, i) = {})
        => /\ sresult.kind = "no_matches"
           /\ sresult.files_searched = Cardinality(Candidates(tree, sargs))

\* a search without matches that read a file and passed over another
C7_Witness ==
    /\ SearchDone
    /\ sresult.kind = "no_matches"
    /\ sresult.files_searched = 1
    /\ \A i \in Candidates(tree, sargs) : MatchingLines(tree, sargs, i) = {}
    /\ \E i \in 1..Len(tree.files) : ~Candidate(tree, sargs, i)

\* file i has five lines, only its line 3 matches, no other file matches,
\* and the call uses the default budgets
FiveLineScenario(i) ==
    /\ Candidate(tree, sargs, i)
    /\ Len(tree.files[i].lines) = 5
    /\ MatchingLines(tree, sargs, i) = {3}
    /\ \A j \in Candidates(tree, sargs) \ {i} : MatchingLines(tree, sargs, j) = {}
    /\ sargs.max_files = DefaultMaxFiles
    /\ sargs.max_tokens = DefaultMaxTokens

ContextNumbers(r) == { r.context[k].n : k \in 1..Len(r.context) }
MarkedNumbers(r) == { r.context[k].n : k \in { j \in 1..Len(r.context) : Marked(r.context[j]) } }

(* C8 as claimed: for a 5-line file whose only matching line is line 3, the *)
(* search returns exactly one record, with line = 3, whose context window   *)
(* includes lines 1 to 5, line 3 and only line 3 marked.                    *)
C8_ContextLinesOneToFive ==
    \A i \in 1..Len(tree.files) :
        (SearchDone /\ FiveLineScenario(i)) =>
            /\ Len(sresult.records) = 1
            /\ sresult.records[1].line = 3
            /\ 1..5 \subseteq ContextNumbers(sresult.records[1])
            /\ MarkedNumbers(sresult.records[1]) = {3}

(* C8 amended: for a 5-line file whose only matching line is line 3, the    *)
(* search (default budgets) returns exactly one record, with line = 3,      *)
(* whose context window is lines 2 to 4: one line before the match and one  *)
(* after it; line 3 and only line 3 is marked.                              *)
C8_ContextLinesTwoToFour ==
    \A i \in 1..Len(tree.files) :
        (SearchDone /\ FiveLineScenario(i)) =>
            /\ Len(sresult.records) = 1
            /\ sresult.records[1].file = RelPath(tree, i)
            /\ sresult.records[1].line = 3
            /\ ContextNumbers(sresult.records[1]) = 2..4
            /\ MarkedNumbers(sresult.records[1]) = {3}

C8_Witness ==
    \E i \in 1..Len(tree.files) :
        SearchDone /\ FiveLineScenario(i) /\ Len(sresult.records) = 1

----------------------------------------------------------------------------
(* Claims about read_file_content *)

ReadDone == rresult # None

\* the file exists, is a regular file and is not over the size read accepts
Readable(f) == f.exists /\ f.isfile /\ f.size <= 10 * 1024 * 1024

ValidRange(a) ==
    a.line_start >= 1 /\ (a.line_end = <<>> \/ a.line_end[1] >= a.line_start)

TotalLinesOf(f) == Len(f.lines)

ExpectedLast(f, a) ==
    IF a.line_end = <<>> THEN TotalLinesOf(f) ELSE Min(a.line_end[1], TotalLinesOf(f))

\* t is the text of line, up to the blanks the line ends with
SameTextUpToTrailingBlanks(t, line) ==
    /\ Len(t) <= Len(line)
    /\ t = SubSeq(line, 1, Len(t))
    /\ \A j \in (Len(t) + 1)..Len(line) : line[j] \in {" ", "\t"}
    /\ (t # <<>> => t[Len(t)] \notin {" ", "\t", "\n"})

(* C4: on a readable file of totalLines lines, with valid arguments and     *)
(* line_start <= totalLines, read_file_content returns exactly              *)
(* min(line_end, totalLines) - line_start + 1 lines (totalLines -           *)
(* line_start + 1 for line_end None); the k-th carries the number           *)
(* line_start + k - 1 and the text of that line of the file (the blanks     *)
(* and the terminator the line ends with are not shown). A line_end past    *)
(* the end is clamped and is no error.                                      *)
C4_ReadReturnsRequestedLines ==
    (ReadDone /\ Readable(rfile) /\ ValidRange(rargs)
       /\ rargs.line_start <= TotalLinesOf(rfile))
        => /\ rresult.kind = "window"
           /\ Len(rresult.lines) = ExpectedLast(rfile, rargs) - rargs.line_start + 1
           /\ rresult.total_lines = TotalLinesOf(rfile)
           /\ \A k \in 1..Len(rresult.lines) :
                 /\ rresult.lines[k].n = rargs.line_start + k - 1
                 /\ SameTextUpToTrailingBlanks(rresult.lines[k].text,
                                               rfile.lines[rargs.line_start + k - 1])

\* a read from line 2 with a line_end past the end of a three-line file
C4_Witness ==
    /\ ReadDone /\ Readable(rfile)
    /\ TotalLinesOf(rfile) = 3
    /\ rargs.line_start = 2
    /\ rargs.line_end = <<4>>
    /\ rresult.kind = "window"
    /\ Len(rresult.lines) = 2

OutOfRangeError ==
    /\ rresult.kind = "error"
    /\ rresult.what = "line_start exceeds file length"
    /\ rresult.line_start = rargs.line_start
    /\ rresult.total_lines = TotalLinesOf(rfile)

(* C5 as claimed: on a readable file, line_start > totalLines always fails  *)
(* with the out-of-range error, whatever line_end is: None or any integer,  *)
(* below line_start, within the file or beyond its end.                     *)
C5_OutOfRangeWhateverLineEnd ==
    (ReadDone /\ Readable(rfile) /\ rargs.line_start > TotalLinesOf(rfile))
        => OutOfRangeError

(* C5 amended: on a readable file, line_start > totalLines fails with the   *)
(* out-of-range error for every line_end that is None or an integer >=      *)
(* line_start; a line_end below line_start is rejected first, with the      *)
(* line_end error.                                                          *)
C5_OutOfRangeForValidLineEnd ==
    (ReadDone /\ Readable(rfile) /\ rargs.line_start > TotalLinesOf(rfile))
        => IF rargs.line_end = <<>> \/ rargs.line_end[1] >= rargs.line_start
           THEN OutOfRangeError
           ELSE /\ rresult.kind = "error"
                /\ rresult.what = "line_end must be None or an integer >= line_start"

\* a read that starts one line past the end, with the default line_end
C5_Witness ==
    /\ ReadDone /\ Readable(rfile)
    /\ TotalLinesOf(rfile) >= 1
    /\ rargs.line_start = TotalLinesOf(rfile) + 1
    /\ rargs.line_end = <<DefaultLineEnd>>
    /\ OutOfRangeError

----------------------------------------------------------------------------
(* Claims about list_directory_contents *)

ListDone == lresult # None /\ lresult.kind \in {"contents", "empty"}

\* the pattern the call compiled (filter_pattern without the blanks around it)
\* is found in the name
FilterMatches(name) == ReSearch(Strip(largs.filter_pattern), name, FALSE)

ListedNames == { lresult.items[k] : k \in 1..Len(lresult.items) }

----------------------------------------------------------------------------
(* Claims about the session *)

SessionEnded == pc \in {"returned", "raised"}

(* C9: when a session ends, the working root a successful clone set has     *)
(* been removed from disk, on the normal return path and when the agent run *)
(* raises after the clone (a removal that itself fails is left aside).      *)
C9_RootRemovedAtSessionEnd ==
    (SessionEnded /\ current_repo_path # <<>> /\ cleanup # "failed")
        => ~PathExists(current_repo_path)

(* C10: no scratch directory of a clone_repository call outlives its        *)
(* session: after a session has returned, the scratch directory of every    *)
(* clone attempt (successful, failed, timed out, or followed by another     *)
(* clone) has been removed, unless the removal itself failed.               *)
C10_NoScratchOutlivesSession ==
    (pc = "returned" /\ cleanup # "failed") => disk = {}

(* C11: when clone_repository has returned its timeout message, the git     *)
(* process it started is no longer running.                                 *)
C11_GitTerminatedOnTimeout ==
    \A c \in 1..Len(clones) : clones[c] = "timeout" => c \notin procs

(* C19: a removal of the scratch directory that fails at the end of the     *)
(* session is swallowed: the run had completed, ask_genie returns the       *)
(* answer and raises nothing, and the directory is simply still there.      *)
C19_RemovalFailureSwallowed ==
    cleanup = "failed" =>
        /\ pc = "returned"
        /\ current_repo_path # <<>> /\ PathExists(current_repo_path)

\* ask_genie has returned although rmtree failed
C19_Witness ==
    /\ pc = "returned" /\ cleanup = "failed"
    /\ Len(clones) >= 2 /\ clones[Len(clones)] = "cloned"

----------------------------------------------------------------------------
(* Claims about the failures of list_directory_contents *)

\* a filter of the model that re.compile rejects: a group that is never
\* closed, or a repetition of nothing
InvalidFilter(fp) ==
    LET q == Strip(fp)
    IN  q # <<>> /\ (q[1] = "*" \/ "(" \in { q[i] : i \in 1..Len(q) })

ListFailure(what) == [kind |-> "error", what |-> what]

\* list_directory_contents has returned, a listing or an error
ListReturned == lresult # None

(* C20: list_directory_contents reports a missing path, a path that is not  *)
(* a directory and a filter that is not a regular expression each with its  *)
(* own error text, returned as data and with no entries listed; any other   *)
(* call lists entries or reports that there are none.                       *)
C20_ListFailuresDistinct ==
    ListReturned =>
        IF ~ldir.exists
        THEN lresult = ListFailure("Directory does not exist")
        ELSE IF ~ldir.isdir
        THEN lresult = ListFailure("Path is not a directory")
        ELSE IF InvalidFilter(largs.filter_pattern)
        THEN lresult = ListFailure("Invalid regex pattern in filter_pattern")
        ELSE lresult.kind \in {"contents", "empty"}

\* a directory with entries listed through a filter that does not compile
C20_Witness ==
    /\ ListReturned
    /\ ldir.exists /\ ldir.isdir /\ ldir.entries # {}
    /\ InvalidFilter(largs.filter_pattern)
    /\ lresult.kind = "error"

----------------------------------------------------------------------------
(* Claims about the tools of a session *)

ReadReturned == rresult # None
SearchReturned == sargs # None /\ spc = "done"
StructureReturned == stresult # None

(* C12: the working root changes only in a clone_repository step whose git  *)
(* process exits with code 0; a clone that fails, times out or cannot start *)
(* leaves it as it was, and no other tool changes it.                       *)
C12_RootSetOnlyBySuccessfulClone ==
    [][current_repo_path' # current_repo_path =>
          /\ clones' = Append(clones, "cloned")
          /\ current_repo_path' = RepoPath(Len(clones'))]_vars

\* a clone that timed out after a successful one, and a search after both
C12_Witness ==
    /\ clones = <<"cloned", "timeout">>
    /\ current_repo_path = RepoPath(1)
    /\ SearchReturned /\ sresult.kind = "found"

(* C13: a progress sink that raises fails no operation: the clone, the      *)
(* structure, the listing, the read and the search return what they return  *)
(* with no sink attached.                                                   *)
C13_SinkFailureIsHarmless ==
    progress_reporter = "raises" =>
        /\ \A c \in 1..Len(clones) : clones[c] # "raised"
        /\ StructureReturned => stresult.kind # "raised"
        /\ SearchReturned => sresult.kind # "raised"
        /\ ListReturned =>
              lresult = ListDirectoryTool(Now, "none", largs.directory_path,
                                          largs.filter_pattern).result
        /\ ReadReturned =>
              rresult = ReadFileTool(Now, "none", rargs.file_path,
                                     rargs.line_start, rargs.line_end).result

(* C14: get_repository_structure, list_directory_contents,                  *)
(* read_file_content and search_in_files return a text or an error as data  *)
(* for every input; none of them raises.                                    *)
C14_ToolsNeverRaise ==
    /\ StructureReturned => stresult.kind # "raised"
    /\ ListReturned => lresult.kind # "raised"
    /\ ReadReturned => rresult.kind # "raised"
    /\ SearchReturned => sresult.kind # "raised"

\* a path that does not start at "/"
Relative(p) == p = <<>> \/ p[1] # "/"

\* the rule of the specification: "" and "." are the root, an absolute path is
\* itself, any other path is the root, a "/" and the path
RuleTarget(p, root) ==
    IF p \in {<<>>, <<".">>} THEN root
    ELSE IF ~Relative(p) THEN p
    ELSE root \o <<"/">> \o p

\* the call got as far as resolving its path, or was refused for its path
ListResolves == ListReturned /\ IsStr(largs.directory_path)

ReadResolves ==
    /\ ReadReturned /\ IsStr(rargs.file_path)
    /\ rargs.line_start >= 1
    /\ rargs.line_end = <<>> \/ rargs.line_end[1] >= rargs.line_start

SearchResolves ==
    /\ SearchReturned /\ IsStr(sargs.directory_path)
    /\ progress_reporter # "raises"
    /\ Strip(sargs.search_pattern) # <<>>

\* a working root is set, or the path needs none
Resolvable(p) == current_repo_path # <<>> \/ ~Relative(Strip(p))

(* C15, as stated: the three tools resolve the path they are given by one   *)
(* rule: "" and "." are the working root, an absolute path is used as it    *)
(* is, any other path is joined to the working root.                        *)
C15_OneResolutionRule ==
    /\ (ListResolves /\ Resolvable(largs.directory_path)) =>
          /\ ldir # None
          /\ ldir.path = RuleTarget(largs.directory_path, current_repo_path)
    /\ (ReadResolves /\ Resolvable(rargs.file_path)) =>
          /\ rfile # None
          /\ rfile.path = RuleTarget(rargs.file_path, current_repo_path)
    /\ (SearchResolves /\ Resolvable(sargs.directory_path)) =>
          /\ tree # None
          /\ tree.path = RuleTarget(sargs.directory_path, current_repo_path)

(* C15, as the code has it: the path is first stripped of the blanks around *)
(* it. list_directory_contents and search_in_files then follow the rule.    *)
(* read_file_content refuses a path that is empty after stripping and joins *)
(* every other relative path, "." included, to the working root.            *)
C15_ResolutionAfterStrip ==
    /\ (ListResolves /\ Resolvable(largs.directory_path)) =>
          /\ ldir # None
          /\ ldir.path = RuleTarget(Strip(largs.directory_path), current_repo_path)
    /\ (SearchResolves /\ Resolvable(sargs.directory_path)) =>
          /\ tree # None
          /\ tree.path = RuleTarget(Strip(sargs.directory_path), current_repo_path)
    /\ (ReadResolves /\ Resolvable(rargs.file_path)) =>
          IF Strip(rargs.file_path) = <<>>
          THEN /\ rfile = None
               /\ rresult = ReadError("file_path must be a non-empty string")
          ELSE /\ rfile # None
               /\ rfile.path =
                     IF Relative(Strip(rargs.file_path))
                     THEN current_repo_path \o <<"/">> \o Strip(rargs.file_path)
                     ELSE Strip(rargs.file_path)

\* a listing of "b " that went to the directory b of the working root
C15_Witness ==
    /\ ListReturned
    /\ largs.directory_path = <<"b", " ">>
    /\ current_repo_path = RepoPath(1)
    /\ ldir.path = RepoPath(1) \o <<"/", "b">>
    /\ lresult.kind = "contents"

NoRootErrors == {NoDirectoryError, RelativePathError}

(* C16, as stated: with no working root, the three tools called with a path *)
(* that is not absolute return the no-working-root error; called with an    *)
(* absolute path they do not.                                               *)
C16_NoRootErrorForEveryRelativePath ==
    current_repo_path = <<>> =>
        /\ (ListReturned /\ IsStr(largs.directory_path)) =>
              (lresult \in NoRootErrors <=> Relative(Strip(largs.directory_path)))
        /\ (ReadReturned /\ IsStr(rargs.file_path)) =>
              (rresult \in NoRootErrors <=> Relative(Strip(rargs.file_path)))
        /\ (SearchReturned /\ IsStr(sargs.directory_path)) =>
              (sresult \in NoRootErrors <=> Relative(Strip(sargs.directory_path)))

(* C16, as the code has it: the arguments are validated before the path is  *)
(* resolved. With no working root and a path that is not absolute,          *)
(* list_directory_contents returns the no-working-root error;               *)
(* read_file_content returns it unless the path is empty or the line range  *)
(* is invalid; search_in_files (whose sink does not fail) returns it unless *)
(* the pattern is empty. With an absolute path none of them returns it.     *)
C16_NoRootErrorAfterValidation ==
    current_repo_path = <<>> =>
        /\ (ListReturned /\ IsStr(largs.directory_path)) =>
              (lresult \in NoRootErrors <=> Relative(Strip(largs.directory_path)))
        /\ (ReadReturned /\ IsStr(rargs.file_path)) =>
              IF Strip(rargs.file_path) = <<>>
              THEN rresult = ReadError("file_path must be a non-empty string")
              ELSE IF rargs.line_start < 1
              THEN rresult = ReadError("line_start must be a positive integer")
              ELSE IF rargs.line_end # <<>> /\ rargs.line_end[1] < rargs.line_start
              THEN rresult = ReadError("line_end must be None or an integer >= line_start")
              ELSE (rresult \in NoRootErrors <=> Relative(Strip(rargs.file_path)))
        /\ (SearchReturned /\ IsStr(sargs.directory_path)
                /\ progress_reporter # "raises") =>
              IF Strip(sargs.search_pattern) = <<>>
              THEN sresult = ReadError("search_pattern must be a non-empty string")
              ELSE (sresult \in NoRootErrors <=> Relative(Strip(sargs.directory_path)))

\* a read of a relative path before any clone
C16_Witness ==
    /\ current_repo_path = <<>> /\ clones = <<"failed">>
    /\ ReadReturned
    /\ rargs.file_path = <<" ", "a">> /\ rargs.line_start = 1
    /\ rresult = RelativePathError

----------------------------------------------------------------------------
(* Claims about two sessions at once *)

Live(s) == sessions[s].pc = "running" /\ sessions[s].current_repo_path # <<>>

(* C18: two ask_genie runs at once are isolated: every clone gets a scratch *)
(* directory of its own, so two running sessions never have the same        *)
(* working root, even for one URL, and the working root of a running        *)
(* session is on disk whatever the other session does, its cleanup          *)
(* included.                                                                *)
C18_SessionsIsolated ==
    \A s \in Sessions :
        Live(s) =>
            /\ PathExists(sessions[s].current_repo_path)
            /\ \A t \in Sessions \ {s} :
                  Live(t) => sessions[t].current_repo_path
                                 # sessions[s].current_repo_path

\* one session has returned and removed its clone, the other still has its own
C18_Witness ==
    /\ sessions[1].pc = "returned"
    /\ sessions[1].current_repo_path # <<>>
    /\ ~PathExists(sessions[1].current_repo_path)
    /\ Live(2)
    /\ PathExists(sessions[2].current_repo_path)
    /\ Cardinality(disk) = 2

----------------------------------------------------------------------------
(* Claims about the budgets of search_in_files *)

\* the walk has ended, or has not moved since the flag was set
Halted ==
    /\ log' = log
    /\ todo' = todo
    /\ matches' = matches
    /\ files_searched' = files_searched
    /\ total_matches_found' = total_matches_found

\* within file i, no line after a matching line that was left out is returned
StoppedAtFirstRejected(i) ==
    \A n \in MatchingLines(tree, sargs, i) :
        ~Returned(RelPath(tree, i), n) =>
            \A m \in (n + 1)..Len(SplitLines(tree.files[i])) :
                ~Returned(RelPath(tree, i), m)

(* C21: once search_in_files has set its truncated flag, the walk halts: no  *)
(* further file is opened or scanned, no further directory is visited and no *)
(* further match record is added (outer loop); and within a file no line     *)
(* after the first rejected match yields a record (inner loop).              *)
C21_WalkHaltsOnceTruncated ==
    /\ [][truncated => Halted]_vars
    /\ [](SearchDone => \A i \in Candidates(tree, sargs) : StoppedAtFirstRejected(i))

\* a truncated search that left a directory and a matching file unvisited
C21_Witness ==
    /\ SearchDone
    /\ truncated
    /\ matches # <<>>
    /\ \E k \in 1..Len(todo) : todo[k].kind = "dir"
    /\ \E k \in 1..Len(todo) :
          /\ todo[k].kind = "file"
          /\ todo[k].id \in Candidates(tree, sargs)
          /\ MatchingLines(tree, sargs, todo[k].id) # {}

\* the size the search estimated for a record, recomputed from what it returns
RecordTokens(r) == estimate_tokens(MatchTextLen(r.file, r.line, r.context))

\* the file the search read last
LastOpened ==
    LET opened == SelectSeq(log, LAMBDA e : e.ev = "open")
    IN  IF opened = <<>> THEN 0 ELSE opened[Len(opened)].id

(* C22: every match record accepted before a budget was reached is in the    *)
(* result, those of the file being scanned when the limit was hit included:  *)
(* the sizes of the returned records add up to estimated_tokens, the counter *)
(* that grows by the size of each record at the moment it is accepted (no    *)
(* record has size 0), and a search that accepted a record lists matches.    *)
C22_PartialResultsKept ==
    SearchDone =>
        /\ SumSeq([k \in 1..Len(sresult.records) |-> RecordTokens(sresult.records[k])])
              = estimated_tokens
        /\ \A k \in 1..Len(sresult.records) : RecordTokens(sresult.records[k]) > 0
        /\ estimated_tokens > 0 => sresult.kind = "found"

\* max_tokens was reached inside a file that had already given a record
C22_Witness ==
    /\ SearchDone
    /\ truncated
    /\ sargs.max_tokens = TokSmall
    /\ files_with_matches < sargs.max_files
    /\ LastOpened # 0
    /\ LeftOut(LastOpened)
    /\ Cardinality(RecordsOf(RelPath(tree, LastOpened))) \in 1..(PerFileCap - 1)

\* the records the walk holds so far for file i
RecordsIn(i) == { k \in 1..Len(matches) : matches[k].file = RelPath(tree, i) }

\* the walk has just read file i and took PerFileCap records from it
JustCapped(i) ==
    /\ spc \in {"walk", "done"}
    /\ log # <<>>
    /\ log[Len(log)] = [ev |-> "open", id |-> i]
    /\ tree.files[i].readable
    /\ ~SkippedFile(sargs, tree.files[i])
    /\ Cardinality(RecordsIn(i)) = PerFileCap

Seen(i) == \E k \in 1..Len(log) : log[k].ev \in {"open", "skip"} /\ log[k].id = i

\* the candidate files the walk opened
OpenedCandidates ==
    { i \in Candidates(tree, sargs) : [ev |-> "open", id |-> i] \in { log[k] : k \in 1..Len(log) } }

(* C24: search_in_files prunes before descent. A directory below the search *)
(* directory whose name starts with '.' or is node_modules, __pycache__,    *)
(* venv or env is never visited, nor any directory below it; a file under   *)
(* such a directory, at any depth, is never opened or looked at, is not     *)
(* counted in files_searched and gives no match record.                     *)
C24_PrunedBeforeDescent ==
    spc \in {"walk", "done"} =>
        /\ \A d \in 1..Len(tree.dirs) :
              BelowPruned(tree, d) => [ev |-> "dir", id |-> d] \notin { log[k] : k \in 1..Len(log) }
        /\ \A i \in 1..Len(tree.files) :
              BelowPruned(tree, tree.files[i].dir) =>
                  /\ ~Seen(i)
                  /\ RecordsIn(i) = {}
        /\ files_searched = Cardinality(OpenedCandidates)

\* a finished search over a tree where a matching file lies in a plain
\* directory below a hidden or denylisted one
C24_Witness ==
    /\ SearchDone
    /\ sresult.kind = "found"
    /\ \E i \in 1..Len(tree.files) :
          /\ tree.files[i].dir # 0
          /\ ~PrunedDir(tree.dirs[tree.files[i].dir].name)
          /\ BelowPruned(tree, tree.files[i].dir)
          /\ tree.files[i].name[1] # "." /\ tree.files[i].readable
          /\ tree.files[i].size <= MaxSearchSize
          /\ PassesExtensions(sargs, tree.files[i].name)
          /\ MatchingLines(tree, sargs, i) # {}
          /\ ~Returned(RelPath(tree, i), 1)

----------------------------------------------------------------------------
(* Claims about get_repository_structure *)

\* the place of a name in the marker list of tools.py:159-166
MarkerIndex(name) == CHOOSE k \in 1..Len(CommonFiles) : CommonFiles[k] = name

Markers == { CommonFiles[k] : k \in 1..Len(CommonFiles) }

StructureDone == stresult # None /\ stresult.kind = "structure"

(* C25: the report of get_repository_structure names as key files exactly    *)
(* the names of the marker list that exist at the top level of the root,    *)
(* each once, in the order of the marker list and not in the order of the   *)
(* listing; the key-files line is left out when no marker name is present.  *)
C25_KeyFilesInCanonicalOrder ==
    StructureDone =>
        /\ (stresult.key_files_line = <<>>) <=> (ldir.entries \cap Markers = {})
        /\ stresult.key_files_line # <<>> =>
              LET key_files == stresult.key_files_line[1]
              IN  /\ { key_files[k] : k \in 1..Len(key_files) } = ldir.entries \cap Markers
                  /\ \A j, k \in 1..Len(key_files) :
                        j < k => MarkerIndex(key_files[j]) < MarkerIndex(key_files[k])

\* README.md, go.mod and LICENSE at the top level: the listing has them in
\* the order LICENSE, README.md, go.mod, the report in the order of the list
C25_Witness ==
    /\ StructureDone
    /\ stresult.items = << <<"L","I","C","E","N","S","E">>,
                           <<"R","E","A","D","M","E",".","m","d">>,
                           <<"a">>,
                           <<"g","o",".","m","o","d">> >>
    /\ stresult.key_files_line = << << <<"R","E","A","D","M","E",".","m","d">>,
                                       <<"g","o",".","m","o","d">>,
                                       <<"L","I","C","E","N","S","E">> >> >>

(* C26: a result is marked truncated only when it was cut short: if the text *)
(* carries the truncation notice, some matching line of a candidate file    *)
(* under the search directory is missing from the returned records.         *)
C26_NoticeOnlyWhenCutShort ==
    (SearchDone /\ sresult.notice) =>
        \E i \in Candidates(tree, sargs) : LeftOut(i)

----------------------------------------------------------------------------
(* Claims about a search followed by a read *)

(* C27: every line number search_in_files reports for a file can be used in *)
(* a follow-up read of the same unchanged file: it lies between 1 and the   *)
(* total line count read_file_content reports, so the read with that        *)
(* line_start does not fail with the out-of-range error.                    *)
C27_SearchLinesReadable ==
    (SearchDone /\ ReadDone) =>
        /\ rresult.kind = "window"
        /\ rargs.line_start \in 1..rresult.total_lines

\* a matching line of the file read last was turned down by the max_files or
\* max_tokens check: it is missing although its file gave fewer records than
\* the per-file cap allows
RejectedByBudget ==
    /\ LastOpened # 0
    /\ LastOpened \in Candidates(tree, sargs)
    /\ LeftOut(LastOpened)
    /\ Cardinality(RecordsOf(RelPath(tree, LastOpened))) < PerFileCap

(* C28: in every result that lists matches, the count N of the "Found N      *)
(* matches" header and the number L of records listed satisfy                *)
(* 0 <= N - L <= 1; N = L whenever the result is not truncated, and          *)
(* N - L = 1 only when a match was rejected by the max_files or max_tokens   *)
(* check.                                                                    *)
C28_HeaderCountsAtMostOneMore ==
    (SearchDone /\ sresult.kind = "found") =>
        LET N == sresult.total
            L == Len(sresult.records)
        IN  /\ N - L \in {0, 1}
            /\ ~sresult.notice => N = L
            /\ N - L = 1 => (sresult.notice /\ RejectedByBudget)

\* a truncated result whose header counts one match more than it lists
C28_Witness ==
    /\ SearchDone /\ sresult.kind = "found"
    /\ sresult.total = Len(sresult.records) + 1
    /\ sresult.notice
    /\ Len(sresult.records) >= 2

----------------------------------------------------------------------------
(* Claims about what the cleanup of a session removes *)

\* the clone_repository call that set the working root: the last that succeeded
LastCloned ==
    CHOOSE c \in 1..Len(clones) :
        clones[c] = "cloned" /\ \A d \in (c + 1)..Len(clones) : clones[d] # "cloned"

(* C29: whatever the repository URLs were (last part empty, '.', '..' or    *)
(* '.git' included), the directory ask_genie removes is the scratch          *)
(* directory made by the clone_repository call that set the working root:   *)
(* the directory above the working root is that scratch directory, nothing  *)
(* else ever leaves the disk, and the directory that holds the scratch      *)
(* directories stays.                                                       *)
C29_CleanupRemovesOwnScratch ==
    /\ [](current_repo_path # <<>> => ScratchOf(current_repo_path) = TempDir(LastCloned))
    /\ [][\A d \in disk \ disk' : d = TempDir(LastCloned) /\ pc' = "returned"]_vars
    /\ [](ScratchParent \in disk)

\* the second clone was given a URL that ends in "/.", the session returned
\* and its scratch directory, and only that, is gone
C29_Witness ==
    /\ pc = "returned" /\ cleanup = "removed"
    /\ clones = <<"cloned", "cloned">>
    /\ current_repo_path = TempDir(2) \o <<"/", ".">>
    /\ disk = {ScratchParent, TempDir(1)}

----------------------------------------------------------------------------
(* PydanticAIAgentExecutor.execute: one call for one task. The events are    *)
(* what TaskUpdater put on the event queue, in order.                        *)

\* the parts of the message and what the configuration of the request says
Requests ==
    [modes_compatible : BOOLEAN, push_url_missing : BOOLEAN,
     parts : UNION { [1..n -> {"text", "file", "data"}] : n \in 0..MaxParts }]

\* executor.py:109-114: TRUE means invalid
ValidateRequest(request) == ~request.modes_compatible \/ request.push_url_missing

\* executor.py:116-131: the text parts, in order
ExtractQuestion(request) == SelectSeq(request.parts, LAMBDA part : part = "text")

ExecuteOthers ==
    <<svars, rvars, lvars, pc, current_repo_path, disk, procs, clones, cleanup,
      progress_reporter, stresult, first, sessions>>

\* executor.py:46-48
Validate ==
    /\ task.pc = "validate"
    /\ task' = IF ValidateRequest(task.request)
               THEN [task EXCEPT !.pc = "ended", !.ended = "InvalidParamsError"]
               ELSE [task EXCEPT !.pc = "submit"]
    /\ UNCHANGED ExecuteOthers

\* executor.py:55-56
Submit ==
    /\ task.pc = "submit"
    /\ task' = [task EXCEPT !.pc = "extract", !.events = Append(@, "submitted")]
    /\ UNCHANGED ExecuteOthers

\* executor.py:59
Extract ==
    /\ task.pc = "extract"
    /\ task' = [task EXCEPT !.pc = "working", !.question = <<ExtractQuestion(task.request)>>]
    /\ UNCHANGED ExecuteOthers

\* executor.py:62-65
Working ==
    /\ task.pc = "working"
    /\ task' = [task EXCEPT !.pc = "ask", !.events = Append(@, "working")]
    /\ UNCHANGED ExecuteOthers

\* progress_reporter.py:21-34: a tool of the run under ask_genie reports progress
ReportProgress ==
    /\ task.pc = "ask"
    /\ Len(task.events) < 2 + MaxProgress
    /\ task' = [task EXCEPT !.events = Append(@, "working")]
    /\ UNCHANGED ExecuteOthers

\* executor.py:77: ask_genie returns the answer
AskReturns ==
    /\ task.pc = "ask"
    /\ task' = [task EXCEPT !.pc = "artifact", !.response = <<"answer">>]
    /\ UNCHANGED ExecuteOthers

\* executor.py:82-86
AddArtifact ==
    /\ task.pc = "artifact"
    /\ task' = [task EXCEPT !.pc = "complete", !.events = Append(@, "artifact")]
    /\ UNCHANGED ExecuteOthers

\* executor.py:87 and the end of execute
Complete ==
    /\ task.pc = "complete"
    /\ task' = [task EXCEPT !.pc = "ended", !.events = Append(@, "completed"),
                            !.ended = "returned"]
    /\ UNCHANGED ExecuteOthers

\* StepRaises whose handler completes the task before it raises
StepRaises_Completes ==
    /\ task.pc \in {"submit", "extract", "working", "ask", "artifact", "complete"}
    /\ task' = [task EXCEPT !.pc = "ended", !.raised = "Exception",
                            !.events = Append(@, "completed"),
                            !.ended = "InternalError"]
    /\ UNCHANGED ExecuteOthers

\* executor.py:53-101: a statement of the try block raises an Exception; the
\* handler raises ServerError(InternalError)
StepRaises ==
    /\ task.pc \in {"submit", "extract", "working", "ask", "artifact", "complete"}
    /\ task' = [task EXCEPT !.pc = "ended", !.raised = "Exception",
                            !.ended = "InternalError"]
    /\ UNCHANGED ExecuteOthers

\* executor.py:56-89: the call is cancelled while it waits; CancelledError is
\* no Exception, so "except Exception" lets it through
Cancelled ==
    /\ task.pc \in {"submit", "working", "ask", "artifact", "complete"}
    /\ task' = [task EXCEPT !.pc = "ended", !.raised = "CancelledError",
                            !.ended = "CancelledError"]
    /\ UNCHANGED ExecuteOthers

ExecuteNext ==
    \/ Validate
    \/ Submit
    \/ Extract
    \/ Working
    \/ ReportProgress
    \/ AskReturns
    \/ AddArtifact
    \/ Complete
    \/ StepRaises
    \/ Cancelled

InitExecute ==
    /\ task \in { [request |-> r, pc |-> "validate", events |-> <<>>,
                   question |-> <<>>, response |-> <<>>,
                   raised |-> "nothing", ended |-> "no"] : r \in Requests }
    /\ pc = "none" /\ current_repo_path = <<>> /\ disk = {} /\ procs = {}
    /\ clones = <<>> /\ cleanup = "pending"
    /\ progress_reporter = "none" /\ stresult = None /\ first = None
    /\ sessions = None
    /\ tree = None /\ SearchIdle /\ ReadIdle /\ ListIdle

SpecExecute == InitExecute /\ [][ExecuteNext]_vars

----------------------------------------------------------------------------
(* Claims about execute *)

Completes == { k \in 1..Len(task.events) : task.events[k] = "completed" }

\* at most one complete event, the last event, after the task was submitted,
\* the working status sent, ask_genie returned and the artifact added
CompleteInOrder ==
    /\ Cardinality(Completes) <= 1
    /\ Completes # {} =>
          /\ Len(task.events) >= 4
          /\ task.events[1] = "submitted"
          /\ task.events[2] = "working"
          /\ \A k \in 3..(Len(task.events) - 2) : task.events[k] = "working"
          /\ task.events[Len(task.events) - 1] = "artifact"
          /\ task.events[Len(task.events)] = "completed"
          /\ task.response # <<>>
          /\ task.ended = "returned"
    /\ "artifact" \in { task.events[k] : k \in 1..Len(task.events) } => task.response # <<>>

\* a request that is not valid ends with InvalidParams before any event
InvalidEndsBeforeEvents ==
    /\ task.ended = "InvalidParamsError" <=> (ValidateRequest(task.request) /\ task.pc = "ended")
    /\ task.ended = "InvalidParamsError" => task.events = <<>>

(* C30 as claimed: the complete event is emitted at most once and only      *)
(* after, in this order, submitted, working, the return of ask_genie and    *)
(* the artifact; when validation fails or any step raises there is no       *)
(* complete event and the call ends by raising ServerError: InvalidParams   *)
(* before any event for an invalid request, InternalError otherwise.        *)
C30_CompleteLastElseServerError ==
    /\ CompleteInOrder
    /\ InvalidEndsBeforeEvents
    /\ task.raised # "nothing" => (Completes = {} /\ task.ended = "InternalError")
    /\ task.ended = "returned" => task.raised = "nothing"

(* C30 amended: as claimed for a step that raises an Exception; when the    *)
(* call is cancelled (CancelledError, which is not an Exception) there is   *)
(* no complete event either, and the call ends with that CancelledError     *)
(* and not with a ServerError.                                              *)
C30_CompleteLastElseErrorOrCancel ==
    /\ CompleteInOrder
    /\ InvalidEndsBeforeEvents
    /\ task.raised # "nothing" => Completes = {}
    /\ task.raised = "Exception" => task.ended = "InternalError"
    /\ task.raised = "CancelledError" => task.ended = "CancelledError"
    /\ task.ended = "returned" => task.raised = "nothing"

\* a call that returned after one progress report of a tool
C30_Witness ==
    /\ task.ended = "returned"
    /\ task.events = <<"submitted", "working", "working", "artifact", "completed">>
    /\ task.question = << <<"text">> >>

====
